---- MODULE Spec2Model ----
(***************************************************************************)
(* Verification model of the terra-fin analytics pipeline                  *)
(* (app/pipelines, app/core, app/services/agent_gemini.py).                *)
(*                                                                         *)
(* Numbers.  The Python code computes on floats; the model computes on     *)
(* exact fixed-point integers:                                             *)
(*   area            milli-hectare            (1 = 0.001 ha)               *)
(*   tCO2e           micro-tCO2e              (1 = 0.000001 t), which is   *)
(*                   the resolution of round(x, 6) in run_estimates        *)
(*   data quality    thousandths              (1000 = 1.0)                 *)
(*   uncertainty     thousandths              (400 = 0.40)                 *)
(* round(x, n) is modelled as round-half-even on the exact decimal value.  *)
(* A table cell that holds a number or text is a record [ok, v]: ok says   *)
(* whether float() parses the cell, v is the parsed value.                 *)
(***************************************************************************)
EXTENDS Integers, Sequences, FiniteSets, TLC

VARIABLES
    est_fields,      \* rows of fields.csv of the estimator's data directory
    est_seasons,     \* rows of fields_seasons.csv
    est_events,      \* rows of management_events.csv
    est_estimates,   \* rows of estimates.csv (written by run_estimates)
    est_runs,        \* how many times run_estimates ran on the directory
    est_raised       \* whether the last run_estimates raised

estVars == <<est_fields, est_seasons, est_events, est_estimates, est_runs, est_raised>>

VARIABLES
    fc_in,           \* arguments of generate_credit_forecast
    fc_forecast,     \* its result: a list of entries; <<>> before the call
    fc_called,       \* whether generate_credit_forecast has returned
    earn_in,         \* price tiers and platform fee estimate_earnings is called with
    earn_out,        \* its result
    earn_called      \* whether estimate_earnings has returned

fcVars == <<fc_in, fc_forecast, fc_called, earn_in, earn_out, earn_called>>

VARIABLES
    sc_in,           \* arguments of compute_credit_score
    sc_out,          \* its result
    sc_called        \* whether compute_credit_score has returned

scVars == <<sc_in, sc_out, sc_called>>

VARIABLES
    rec_payload,     \* the payload get_recommendations is called with
    rec_service,     \* what the generative service does when it is called
    rec_result,      \* what get_recommendations returned or raised
    rec_called       \* whether get_recommendations has finished

recVars == <<rec_payload, rec_service, rec_result, rec_called>>

VARIABLES
    pipe_runs,       \* the invocations of run_full_pipeline: run -> its request,
                     \* environment, position, local variables and outcome
    pipe_fs,         \* the temporary directories that exist: name -> CSV tables
    pipe_store       \* the analyses saved in the document store

pipeVars == <<pipe_runs, pipe_fs, pipe_store>>

VARIABLES
    db_farms,        \* rows of the farms table, in rowid order
    db_fields,       \* rows of the fields table, in rowid order
    db_analyses,     \* rows of the analyses table, in rowid order
    db_clock,        \* the wall clock, in whole seconds
    db_log,          \* the save_farm_full requests handled so far, oldest first
    db_last          \* the last request to the profile API and its answer

dbVars == <<db_farms, db_fields, db_analyses, db_clock, db_log, db_last>>

VARIABLES
    step_store,      \* _STORE: (farm, field) key -> completed set and timeline
    step_clock,      \* the wall clock of the step API, in whole seconds
    step_last        \* the last complete_step request, the record before, the answer

stepVars == <<step_store, step_clock, step_last>>

vars == <<estVars, fcVars, scVars, recVars, pipeVars, dbVars, stepVars>>

\* the variables of the other components, for each component
estOthers == <<fcVars, scVars, recVars, pipeVars, dbVars, stepVars>>
fcOthers == <<estVars, scVars, recVars, pipeVars, dbVars, stepVars>>
scOthers == <<estVars, fcVars, recVars, pipeVars, dbVars, stepVars>>
recOthers == <<estVars, fcVars, scVars, pipeVars, dbVars, stepVars>>
pipeOthers == <<estVars, fcVars, scVars, recVars, dbVars, stepVars>>
dbOthers == <<estVars, fcVars, scVars, recVars, pipeVars, stepVars>>
stepOthers == <<estVars, fcVars, scVars, recVars, pipeVars, dbVars>>

(***************************************************************************)
(* Bounds of the model.                                                    *)
(***************************************************************************)
\* most tillage passes / irrigation events one season of the estimator's inputs holds
MaxCount == 2
\* most times run_estimates is run on one data directory
MaxEstRuns == 1

(***************************************************************************)
(* Arithmetic helpers.                                                     *)
(***************************************************************************)
Max(a, b) == IF a >= b THEN a ELSE b
Min(a, b) == IF a <= b THEN a ELSE b

\* round(n / d) for d > 0, ties to the even neighbour (Python's round)
RoundDiv(n, d) ==
    LET f == n \div d
        r == n % d
    IN  IF 2 * r > d THEN f + 1
        ELSE IF 2 * r < d THEN f
        ELSE IF f % 2 = 0 THEN f ELSE f + 1

\* round(a * b / 1000) without forming a * b (a may be large, 0 <= b < 10000)
MulDivRound1000(a, b) ==
    LET q == a \div 1000
        r == a % 1000
        f == q * b + ((r * b) \div 1000)
        m == (r * b) % 1000
    IN  IF 2 * m > 1000 THEN f + 1
        ELSE IF 2 * m < 1000 THEN f
        ELSE IF f % 2 = 0 THEN f ELSE f + 1

(***************************************************************************)
(* Exact fractions [n, d] with d > 0, kept in lowest terms: the values of  *)
(* floats whose later rounding must be computed exactly.                   *)
(***************************************************************************)
Abs(x) == IF x < 0 THEN -x ELSE x

RECURSIVE GCD(_, _)
GCD(a, b) == IF b = 0 THEN a ELSE GCD(b, a % b)

Frac(n, d) == LET g == GCD(Abs(n), d) IN [n |-> n \div g, d |-> d \div g]

FracMul(a, b) ==
    LET g1 == GCD(Abs(a.n), b.d)
        g2 == GCD(Abs(b.n), a.d)
    IN  Frac((a.n \div g1) * (b.n \div g2), (a.d \div g2) * (b.d \div g1))

FracAdd(a, b) ==
    LET g == GCD(a.d, b.d)
    IN  Frac(a.n * (b.d \div g) + b.n * (a.d \div g), (a.d \div g) * b.d)

FracSub(a, b) == FracAdd(a, [n |-> -b.n, d |-> b.d])

\* a / b for b > 0
FracDiv(a, b) == FracMul(a, [n |-> b.d, d |-> b.n])

FracLeq(a, b) == a.n * b.d <= b.n * a.d

FracMax(a, b) == IF FracLeq(b, a) THEN a ELSE b
FracMin(a, b) == IF FracLeq(a, b) THEN a ELSE b

\* round(f * scale), ties to even
RoundFrac(f, scale) ==
    LET s == FracMul(f, Frac(scale, 1))
    IN  RoundDiv(s.n, s.d)

RECURSIVE SeqSum(_)
SeqSum(s) == IF s = <<>> THEN 0 ELSE Head(s) + SeqSum(Tail(s))

RECURSIVE Repeat(_, _)
Repeat(x, n) == IF n <= 0 THEN <<>> ELSE <<x>> \o Repeat(x, n - 1)

RECURSIVE Flatten(_)
Flatten(ss) == IF ss = <<>> THEN <<>> ELSE Head(ss) \o Flatten(Tail(ss))

SeqToSet(s) == {s[i] : i \in 1..Len(s)}

(***************************************************************************)
(* Text helpers: str(s).strip() and .lower() on the strings the model uses.*)
(***************************************************************************)
\* _clean: str(s).strip()
Clean(s) ==
    CASE s = " Tillage " -> "Tillage"
      [] s = "   "       -> ""
      [] s = " Prairie Carbon Co-op " -> "Prairie Carbon Co-op"
      [] s = " "         -> ""
      [] OTHER           -> s

\* str.lower()
Lower(s) ==
    CASE s = "Tillage"  -> "tillage"
      [] s = "Rice"     -> "rice"
      [] s = "Baseline" -> "baseline"
      [] OTHER          -> s

(***************************************************************************)
(* Delta estimator: app/pipelines/estimate.py                              *)
(*                                                                         *)
(* A reduction is a record [micro, tiny]: micro * 1e-6 + tiny * 5e-12      *)
(* tCO2e.  tiny is the fertilizer term computed with the area floor        *)
(* max(area_ha, 1e-9) when area_ha <= 0; it is below half a micro-tonne    *)
(* for every amount the model uses, so round(x, 6) drops it.               *)
(***************************************************************************)
TILLAGE_MICRO_PER_MILLI_HA == 100     \* 0.10 tCO2e/ha per tillage pass
FERT_MICRO_PER_MILLI_HA == 5          \* 0.005 tCO2e/ha per unit of amount
IRRIGATION_MICRO_PER_MILLI_HA == 20   \* 0.02 tCO2e/ha per irrigation event

Val(m, t) == [micro |-> m, tiny |-> t]
ValAdd(a, b) == Val(a.micro + b.micro, a.tiny + b.tiny)
ValIsNeg(v) == v.micro < 0 \/ (v.micro = 0 /\ v.tiny < 0)
\* float(max(delta, 0.0))
ValMax0(v) == IF ValIsNeg(v) THEN Val(0, 0) ELSE v
ValLeq(a, b) == a.micro < b.micro \/ (a.micro = b.micro /\ a.tiny <= b.tiny)

\* float(x) of a table cell, _as_float's default when it does not parse
AsFloat(cell, default) == IF cell.ok THEN cell.v ELSE default

\* _pick(row, [key, ...], required=False): the stripped cell, "" when blank
Pick(row, key) == Clean(row[key])

EventType(e) == Lower(Clean(e.event_type))

count_type(events, t) ==
    Len(SelectSeq(events, LAMBDA e : EventType(e) = t))

\* float(_clean(e.get("amount", "") or "0")): an empty cell counts 0, an
\* unparsable one raises inside the try and adds nothing
AmountOf(e) ==
    CASE e.amount.kind = "num"   -> e.amount.v
      [] e.amount.kind = "empty" -> 0
      [] OTHER                   -> 0

RECURSIVE sum_amount_for_type(_, _)
sum_amount_for_type(events, t) ==
    IF events = <<>> THEN 0
    ELSE (IF EventType(Head(events)) = t THEN AmountOf(Head(events)) ELSE 0)
         + sum_amount_for_type(Tail(events), t)

\* (base_tillage - proj_tillage) * 0.10 * max(area_ha, 0.0)
TillageTerm(area_ha, base_tillage, proj_tillage) ==
    Val((base_tillage - proj_tillage) * TILLAGE_MICRO_PER_MILLI_HA * Max(area_ha, 0), 0)

\* (base_fert - proj_fert) * 0.005 * max(area_ha, 1e-9)
FertilizerTerm(area_ha, base_fert, proj_fert) ==
    IF area_ha > 0
    THEN Val((base_fert - proj_fert) * FERT_MICRO_PER_MILLI_HA * area_ha, 0)
    ELSE Val(0, base_fert - proj_fert)

\* (base_irr - proj_irr) * 0.02 * max(area_ha, 0.0)
IrrigationTerm(area_ha, base_irr, proj_irr) ==
    Val((base_irr - proj_irr) * IRRIGATION_MICRO_PER_MILLI_HA * Max(area_ha, 0), 0)

TillageFired(base_tillage, proj_tillage) == proj_tillage < base_tillage
FertilizerFired(base_fert, proj_fert) == proj_fert < base_fert
IrrigationFired(base_irr, proj_irr) == proj_irr < base_irr

\* a signed variant: every term is added whether or not the practice was reduced,
\* and the sum is returned as it is
estimate_season_delta_signed(area_ha, crop_type, baseline_events, project_events) ==
    LET base_tillage == count_type(baseline_events, "tillage")
        proj_tillage == count_type(project_events, "tillage")
        base_fert == sum_amount_for_type(baseline_events, "fertilizer")
        proj_fert == sum_amount_for_type(project_events, "fertilizer")
        base_irr == count_type(baseline_events, "irrigation")
        proj_irr == count_type(project_events, "irrigation")
    IN  [mid |-> ValAdd(ValAdd(TillageTerm(area_ha, base_tillage, proj_tillage),
                               FertilizerTerm(area_ha, base_fert, proj_fert)),
                        IrrigationTerm(area_ha, base_irr, proj_irr)),
         assumptions |-> <<"no_detected_changes">>]

estimate_season_delta_tco2e(area_ha, crop_type, baseline_events, project_events) ==
    LET crop == Lower(Clean(crop_type))
        base_tillage == count_type(baseline_events, "tillage")
        proj_tillage == count_type(project_events, "tillage")
        base_fert == sum_amount_for_type(baseline_events, "fertilizer")
        proj_fert == sum_amount_for_type(project_events, "fertilizer")
        base_irr == count_type(baseline_events, "irrigation")
        proj_irr == count_type(project_events, "irrigation")
        tf == TillageFired(base_tillage, proj_tillage)
        ff == FertilizerFired(base_fert, proj_fert)
        irf == IrrigationFired(base_irr, proj_irr)
        d1 == IF tf THEN TillageTerm(area_ha, base_tillage, proj_tillage) ELSE Val(0, 0)
        d2 == IF ff THEN FertilizerTerm(area_ha, base_fert, proj_fert) ELSE Val(0, 0)
        d3 == IF irf THEN IrrigationTerm(area_ha, base_irr, proj_irr) ELSE Val(0, 0)
        delta == ValAdd(ValAdd(d1, d2), d3)
        fired == (IF tf THEN <<"reduced_tillage_proxy">> ELSE <<>>)
                 \o (IF ff THEN <<"fertilizer_reduction_proxy">> ELSE <<>>)
                 \o (IF irf THEN <<"irrigation_energy_proxy">> ELSE <<>>)
                 \o (IF crop = "rice" THEN <<"rice_methane_not_modeled_yet">> ELSE <<>>)
    IN  [mid |-> ValMax0(delta),
         assumptions |-> IF fired = <<>> THEN <<"no_detected_changes">> ELSE fired]

\* _data_quality_score, in thousandths
data_quality_score(season_events) ==
    LET types == {EventType(season_events[i]) : i \in 1..Len(season_events)}
        score == (IF "fertilizer" \in types THEN 300 ELSE 0)
                 + (IF "tillage" \in types THEN 300 ELSE 0)
                 + (IF "irrigation" \in types THEN 200 ELSE 0)
                 + (IF Len(season_events) >= 4 THEN 200 ELSE 0)
    IN  Min(1000, score)

(***************************************************************************)
(* run_estimates: reads the three tables, writes estimates.csv.            *)
(* Rows carry the canonical column names; the alternative header names     *)
(* _pick also tries are not modelled.                                      *)
(***************************************************************************)
\* int(_as_float(year, default=0.0))
YearToInt(y) ==
    CASE y = "2024" -> 2024
      [] y = "2023" -> 2023
      [] OTHER      -> 0

\* fields[field_id] = r for every row with a field id: the last row wins
FieldIds(field_rows) ==
    {Pick(field_rows[i], "field_id") : i \in 1..Len(field_rows)} \ {""}

FieldOf(field_rows, fid) ==
    LET idx == {i \in 1..Len(field_rows) : Pick(field_rows[i], "field_id") = fid}
    IN  field_rows[CHOOSE i \in idx : \A j \in idx : j <= i]

\* events_by_season.get(sid, []) for a non-empty sid
EventsOfSeason(event_rows, sid) ==
    SelectSeq(event_rows, LAMBDA e : Pick(e, "season_id") = sid)

SeasonScenario(s) == Lower(Pick(s, "scenario"))

\* if not (field_id and year and crop_type and scenario): continue
SeasonGrouped(s) ==
    /\ Pick(s, "field_id") /= ""
    /\ Pick(s, "year") /= ""
    /\ Pick(s, "crop_type") /= ""
    /\ SeasonScenario(s) /= ""

SeasonKey(s) ==
    [field_id |-> Pick(s, "field_id"), year |-> Pick(s, "year"),
     crop_type |-> Pick(s, "crop_type")]

\* the keys of `grouped`, in insertion order
RECURSIVE GroupKeysFrom(_, _)
GroupKeysFrom(season_rows, seen) ==
    IF season_rows = <<>> THEN <<>>
    ELSE LET s == Head(season_rows)
         IN  IF SeasonGrouped(s) /\ SeasonKey(s) \notin seen
             THEN <<SeasonKey(s)>> \o GroupKeysFrom(Tail(season_rows), seen \cup {SeasonKey(s)})
             ELSE GroupKeysFrom(Tail(season_rows), seen)

GroupKeys(season_rows) == GroupKeysFrom(season_rows, {})

\* indexes of the rows stored as grouped[key][scenario]
ScenarioRows(season_rows, key, scenario) ==
    {i \in 1..Len(season_rows) :
        /\ SeasonGrouped(season_rows[i])
        /\ SeasonKey(season_rows[i]) = key
        /\ SeasonScenario(season_rows[i]) = scenario}

\* grouped[key][scenario]: the last such row
ScenarioRow(season_rows, key, scenario) ==
    LET idx == ScenarioRows(season_rows, key, scenario)
    IN  season_rows[CHOOSE i \in idx : \A j \in idx : j <= i]

\* the subtraction with its operands swapped
UncertaintySwapped(dq) == ((300 * dq) \div 1000) - 400

\* uncertainty = 0.40 - (0.30 * dq), in thousandths (dq is a multiple of 0.05)
Uncertainty(dq) == 400 - ((300 * dq) \div 1000)

\* round(max(0.0, delta * (1.0 - uncertainty)), 6)
LowOf(delta, uncertainty) == Max(0, MulDivRound1000(delta.micro, 1000 - uncertainty))

\* round(delta * (1.0 + uncertainty), 6)
HighOf(delta, uncertainty) == MulDivRound1000(delta.micro, 1000 + uncertainty)

\* the out_row of one (field_id, year, crop_type) group with both seasons and a field
EstimateRow(key, fld, base_season_id, proj_season_id, event_rows) ==
    LET area_ha == AsFloat(fld.area_ha, 0)
        base_events == EventsOfSeason(event_rows, base_season_id)
        proj_events == EventsOfSeason(event_rows, proj_season_id)
        dq == (data_quality_score(base_events) + data_quality_score(proj_events)) \div 2
        est == estimate_season_delta_tco2e(area_ha, key.crop_type, base_events, proj_events)
        uncertainty == Uncertainty(dq)
    IN  [season_id |-> proj_season_id,
         field_id |-> key.field_id,
         year |-> YearToInt(key.year),
         scenario |-> "project",
         crop_type |-> Lower(Clean(key.crop_type)),
         estimated_tco2e |-> est.mid.micro,
         low_tco2e |-> LowOf(est.mid, uncertainty),
         high_tco2e |-> HighOf(est.mid, uncertainty),
         data_quality_score |-> dq,
         assumptions |-> est.assumptions]

\* a variant in which a group without both scenarios is an error
GroupStepFatalGap(key, field_rows, season_rows, event_rows) ==
    IF \/ ScenarioRows(season_rows, key, "baseline") = {}
       \/ ScenarioRows(season_rows, key, "project") = {}
    THEN [rows |-> <<>>, raised |-> TRUE]
    ELSE IF key.field_id \notin FieldIds(field_rows)
    THEN [rows |-> <<>>, raised |-> FALSE]
    ELSE LET base_season_id == Pick(ScenarioRow(season_rows, key, "baseline"), "season_id")
             proj_season_id == Pick(ScenarioRow(season_rows, key, "project"), "season_id")
         IN  IF base_season_id = "" \/ proj_season_id = ""
             THEN [rows |-> <<>>, raised |-> TRUE]
             ELSE [rows |-> <<EstimateRow(key, FieldOf(field_rows, key.field_id),
                                          base_season_id, proj_season_id, event_rows)>>,
                   raised |-> FALSE]

\* a variant that writes no row for a group whose seasons have no events
GroupStepSkipEmpty(key, field_rows, season_rows, event_rows) ==
    IF \/ ScenarioRows(season_rows, key, "baseline") = {}
       \/ ScenarioRows(season_rows, key, "project") = {}
    THEN [rows |-> <<>>, raised |-> FALSE]
    ELSE IF key.field_id \notin FieldIds(field_rows)
    THEN [rows |-> <<>>, raised |-> FALSE]
    ELSE LET base_season_id == Pick(ScenarioRow(season_rows, key, "baseline"), "season_id")
             proj_season_id == Pick(ScenarioRow(season_rows, key, "project"), "season_id")
         IN  IF base_season_id = "" \/ proj_season_id = ""
             THEN [rows |-> <<>>, raised |-> TRUE]
             ELSE IF /\ EventsOfSeason(event_rows, base_season_id) = <<>>
                     /\ EventsOfSeason(event_rows, proj_season_id) = <<>>
             THEN [rows |-> <<>>, raised |-> FALSE]
             ELSE [rows |-> <<EstimateRow(key, FieldOf(field_rows, key.field_id),
                                          base_season_id, proj_season_id, event_rows)>>,
                   raised |-> FALSE]

\* one iteration of the loop over grouped.items(): the rows it appends, and
\* whether _pick(..., required=True) raised KeyError on a season without an id
GroupStep(key, field_rows, season_rows, event_rows) ==
    IF \/ ScenarioRows(season_rows, key, "baseline") = {}
       \/ ScenarioRows(season_rows, key, "project") = {}
    THEN [rows |-> <<>>, raised |-> FALSE]
    ELSE IF key.field_id \notin FieldIds(field_rows)
    THEN [rows |-> <<>>, raised |-> FALSE]
    ELSE LET base_season_id == Pick(ScenarioRow(season_rows, key, "baseline"), "season_id")
             proj_season_id == Pick(ScenarioRow(season_rows, key, "project"), "season_id")
         IN  IF base_season_id = "" \/ proj_season_id = ""
             THEN [rows |-> <<>>, raised |-> TRUE]
             ELSE [rows |-> <<EstimateRow(key, FieldOf(field_rows, key.field_id),
                                          base_season_id, proj_season_id, event_rows)>>,
                   raised |-> FALSE]

RECURSIVE EstimateGroups(_, _, _, _)
EstimateGroups(keys, field_rows, season_rows, event_rows) ==
    IF keys = <<>> THEN [rows |-> <<>>, raised |-> FALSE]
    ELSE LET step == GroupStep(Head(keys), field_rows, season_rows, event_rows)
         IN  IF step.raised THEN step
             ELSE LET rest == EstimateGroups(Tail(keys), field_rows, season_rows, event_rows)
                  IN  [rows |-> step.rows \o rest.rows, raised |-> rest.raised]

\* the rows run_estimates appends to estimates.csv, and whether it raised
run_estimates(field_rows, season_rows, event_rows) ==
    EstimateGroups(GroupKeys(season_rows), field_rows, season_rows, event_rows)

(***************************************************************************)
(* Specification SpecEst: run_estimates on one data directory.             *)
(* The directory holds one field with a baseline and a project season;     *)
(* each season's events are drawn from the profiles below.                 *)
(***************************************************************************)
NumCell(n) == [ok |-> TRUE, v |-> n]
NoCell == [ok |-> FALSE, v |-> 0]

Amount(n) == [kind |-> "num", v |-> n]
EmptyAmount == [kind |-> "empty", v |-> 0]
TextAmount == [kind |-> "text", v |-> 0]

\* area_ha cells: negative, blank (read as 0.0), 1.5 ha
EstAreas == {NumCell(-1000), NoCell, NumCell(1500)}
EstCrops == {"corn", "rice"}
\* the amount cells of a season's fertilizer events
FertLists == {<<>>, <<Amount(120)>>, <<Amount(95), EmptyAmount>>, <<TextAmount, Amount(-30)>>}
\* event types other than the three the estimator counts, and one it normalises
OtherLists == {<<>>, <<" Tillage ", "harvest">>}

BaseProfiles == [t : 0..MaxCount, f : FertLists, i : 0..MaxCount, o : OtherLists]
ProjProfiles == [t : 0..MaxCount, f : FertLists, i : 0..MaxCount, o : {<<>>}]

EventRow(sid, type, amount) == [season_id |-> sid, event_type |-> type, amount |-> amount]

EventsFor(sid, p) ==
    Repeat(EventRow(sid, "tillage", EmptyAmount), p.t)
    \o [k \in 1..Len(p.f) |-> EventRow(sid, "fertilizer", p.f[k])]
    \o Repeat(EventRow(sid, "irrigation", EmptyAmount), p.i)
    \o [k \in 1..Len(p.o) |-> EventRow(sid, p.o[k], EmptyAmount)]

SeasonRow(sid, fid, year, scenario, crop) ==
    [season_id |-> sid, field_id |-> fid, year |-> year, scenario |-> scenario,
     crop_type |-> crop]

FieldRow(fid, name, area) == [field_id |-> fid, field_name |-> name, area_ha |-> area]

FcIdle ==
    /\ fc_in = <<>>
    /\ fc_forecast = <<>>
    /\ fc_called = FALSE
    /\ earn_in = <<>>
    /\ earn_out = <<>>
    /\ earn_called = FALSE

ScIdle ==
    /\ sc_in = <<>>
    /\ sc_out = <<>>
    /\ sc_called = FALSE

EstIdle ==
    /\ est_fields = <<>>
    /\ est_seasons = <<>>
    /\ est_events = <<>>
    /\ est_estimates = <<>>
    /\ est_runs = 0
    /\ est_raised = FALSE

RecIdle ==
    /\ rec_payload = <<>>
    /\ rec_service = <<>>
    /\ rec_result = <<>>
    /\ rec_called = FALSE

PipeIdle ==
    /\ pipe_runs = <<>>
    /\ pipe_fs = <<>>
    /\ pipe_store = <<>>

DbIdle ==
    /\ db_farms = <<>>
    /\ db_fields = <<>>
    /\ db_analyses = <<>>
    /\ db_clock = 0
    /\ db_log = <<>>
    /\ db_last = <<>>

StepIdle ==
    /\ step_store = <<>>
    /\ step_clock = 0
    /\ step_last = <<>>

EstOthersIdle == FcIdle /\ ScIdle /\ RecIdle /\ PipeIdle /\ DbIdle /\ StepIdle
FcOthersIdle == EstIdle /\ ScIdle /\ RecIdle /\ PipeIdle /\ DbIdle /\ StepIdle
ScOthersIdle == EstIdle /\ FcIdle /\ RecIdle /\ PipeIdle /\ DbIdle /\ StepIdle
RecOthersIdle == EstIdle /\ FcIdle /\ ScIdle /\ PipeIdle /\ DbIdle /\ StepIdle
PipeOthersIdle == EstIdle /\ FcIdle /\ ScIdle /\ RecIdle /\ DbIdle /\ StepIdle
DbOthersIdle == EstIdle /\ FcIdle /\ ScIdle /\ RecIdle /\ PipeIdle /\ StepIdle
StepOthersIdle == EstIdle /\ FcIdle /\ ScIdle /\ RecIdle /\ PipeIdle /\ DbIdle

InitEst ==
    \E a \in EstAreas, c \in EstCrops, pb \in BaseProfiles, pp \in ProjProfiles :
        /\ est_fields = <<FieldRow("f1", "Field A", a)>>
        /\ est_seasons = <<SeasonRow("s1", "f1", "2024", "baseline", c),
                           SeasonRow("s2", "f1", "2024", "project", c)>>
        /\ est_events = EventsFor("s1", pb) \o EventsFor("s2", pp)
        /\ est_estimates = <<>>
        /\ est_runs = 0
        /\ est_raised = FALSE
        /\ EstOthersIdle

\* run_estimates(data_dir): appends its rows to estimates.csv
RunEstimates ==
    /\ est_runs < MaxEstRuns
    /\ LET out == run_estimates(est_fields, est_seasons, est_events)
       IN  /\ est_estimates' = est_estimates \o out.rows
           /\ est_raised' = out.raised
    /\ est_runs' = est_runs + 1
    /\ UNCHANGED <<est_fields, est_seasons, est_events>>
    /\ UNCHANGED estOthers

NextEst == RunEstimates

SpecEst == InitEst /\ [][NextEst]_vars

\* the inputs run_estimates hands to estimate_season_delta_tco2e in this directory
EstBaseEvents == EventsOfSeason(est_events, "s1")
EstProjEvents == EventsOfSeason(est_events, "s2")
EstArea == AsFloat(est_fields[1].area_ha, 0)
EstCrop == est_seasons[1].crop_type
EstDirect == estimate_season_delta_tco2e(EstArea, EstCrop, EstBaseEvents, EstProjEvents)

(***************************************************************************)
(* C1: for every area and every pair of event lists the mid reduction      *)
(* returned by estimate_season_delta_tco2e is >= 0, and so is every        *)
(* estimated_tco2e written by run_estimates.                               *)
(***************************************************************************)
C1_MidNonNegative ==
    /\ ~ValIsNeg(EstDirect.mid)
    /\ \A k \in 1..Len(est_estimates) : est_estimates[k].estimated_tco2e >= 0

\* a row was written for a field whose fertilizer use went up while tillage went down
C1_Witness ==
    /\ est_runs > 0
    /\ sum_amount_for_type(EstProjEvents, "fertilizer")
         > sum_amount_for_type(EstBaseEvents, "fertilizer")
    /\ \E k \in 1..Len(est_estimates) : est_estimates[k].estimated_tco2e > 0

(***************************************************************************)
(* C2: every estimate row written by run_estimates satisfies               *)
(* 0 <= low_tco2e <= estimated_tco2e <= high_tco2e.                        *)
(***************************************************************************)
C2_BandOrdered ==
    \A k \in 1..Len(est_estimates) :
        /\ 0 <= est_estimates[k].low_tco2e
        /\ est_estimates[k].low_tco2e <= est_estimates[k].estimated_tco2e
        /\ est_estimates[k].estimated_tco2e <= est_estimates[k].high_tco2e

\* a row with a strict band, written from two seasons of full data quality
C2_Witness ==
    \E k \in 1..Len(est_estimates) :
        /\ 0 < est_estimates[k].low_tco2e
        /\ est_estimates[k].low_tco2e < est_estimates[k].estimated_tco2e
        /\ est_estimates[k].estimated_tco2e < est_estimates[k].high_tco2e
        /\ est_estimates[k].data_quality_score = 1000

(***************************************************************************)
(* Forecast engine and earnings projector: app/core/forecast.py and        *)
(* app/core/earnings.py.  Annual reductions are exact fractions of a       *)
(* tCO2e, credits are in milli-tCO2e (round(x, 3)), percentages in whole   *)
(* percent, prices in whole USD per tCO2e, earnings in cents               *)
(* (round(x, 2)).                                                          *)
(***************************************************************************)
\* the scaling without the buffer deduction
ScaleCreditsNoBuffer(annual, months, buffer_pool_pct) ==
    RoundFrac(FracMul(annual, Frac(months, 12)), 1000)

\* round(annual * (months / 12.0) * (1 - buffer_pool_pct), 3)
ScaleCredits(annual, months, buffer_pool_pct) ==
    RoundFrac(FracMul(annual, Frac(months * (100 - buffer_pool_pct), 1200)), 1000)

\* an entry whose high value is scaled from annual_low
ForecastEntryLowForHigh(months, annual_low, annual_mid, annual_high, buffer_pool_pct) ==
    [months |-> months,
     credits_tco2e |-> [low |-> ScaleCredits(annual_low, months, buffer_pool_pct),
                        mid |-> ScaleCredits(annual_mid, months, buffer_pool_pct),
                        high |-> ScaleCredits(annual_low, months, buffer_pool_pct)]]

ForecastEntry(months, annual_low, annual_mid, annual_high, buffer_pool_pct) ==
    [months |-> months,
     credits_tco2e |-> [low |-> ScaleCredits(annual_low, months, buffer_pool_pct),
                        mid |-> ScaleCredits(annual_mid, months, buffer_pool_pct),
                        high |-> ScaleCredits(annual_high, months, buffer_pool_pct)]]

generate_credit_forecast(annual_low, annual_mid, annual_high, horizons_months, buffer_pool_pct) ==
    [k \in 1..Len(horizons_months) |->
        ForecastEntry(horizons_months[k], annual_low, annual_mid, annual_high, buffer_pool_pct)]

\* round(credits * price * (1 - platform_fee_pct), 2)
NetEarnings(credits, price, platform_fee_pct) ==
    RoundDiv(credits * price * (100 - platform_fee_pct), 1000)

\* an entry whose low value is priced at price_high
EarningsEntryHighForLow(entry, price_low, price_mid, price_high, platform_fee_pct) ==
    [months |-> entry.months,
     net_earnings_usd |->
        [low |-> NetEarnings(entry.credits_tco2e.low, price_high, platform_fee_pct),
         mid |-> NetEarnings(entry.credits_tco2e.mid, price_mid, platform_fee_pct),
         high |-> NetEarnings(entry.credits_tco2e.high, price_high, platform_fee_pct)]]

EarningsEntry(entry, price_low, price_mid, price_high, platform_fee_pct) ==
    [months |-> entry.months,
     net_earnings_usd |->
        [low |-> NetEarnings(entry.credits_tco2e.low, price_low, platform_fee_pct),
         mid |-> NetEarnings(entry.credits_tco2e.mid, price_mid, platform_fee_pct),
         high |-> NetEarnings(entry.credits_tco2e.high, price_high, platform_fee_pct)]]

estimate_earnings(forecast, price_low, price_mid, price_high, platform_fee_pct) ==
    [k \in 1..Len(forecast) |->
        EarningsEntry(forecast[k], price_low, price_mid, price_high, platform_fee_pct)]

(***************************************************************************)
(* Specification SpecForecast: one call of generate_credit_forecast and    *)
(* calls of estimate_earnings on its result.                               *)
(***************************************************************************)
Band(l, m, h) == [low |-> l, mid |-> m, high |-> h]

\* annual bands with low <= mid <= high, in milli-tCO2e
AnnualBands ==
    {Band(0, 0, 0), Band(3818, 4546, 5273), Band(8400, 10000, 11600),
     Band(10000, 10000, 10000), Band(-3000, -2000, -1000), Band(-1000, 0, 2000)}
HorizonLists == {<<6, 12, 24, 36>>, <<12>>, <<0>>, <<-6, 1>>}
BufferPcts == {-20, 0, 10, 100, 150}
PriceTiers == {<<10, 25, 40>>, <<25, 25, 25>>, <<40, 25, 10>>, <<-10, 25, 40>>}
FeePcts == {0, 10, 100, 150}

InitForecast ==
    /\ \E b \in AnnualBands, h \in HorizonLists, p \in BufferPcts :
          fc_in = [annual |-> b, horizons_months |-> h, buffer_pool_pct |-> p]
    /\ fc_forecast = <<>>
    /\ fc_called = FALSE
    /\ earn_in = <<>>
    /\ earn_out = <<>>
    /\ earn_called = FALSE
    /\ FcOthersIdle

GenerateCreditForecast ==
    /\ ~fc_called
    /\ fc_forecast' = generate_credit_forecast(Frac(fc_in.annual.low, 1000),
                          Frac(fc_in.annual.mid, 1000), Frac(fc_in.annual.high, 1000),
                          fc_in.horizons_months, fc_in.buffer_pool_pct)
    /\ fc_called' = TRUE
    /\ UNCHANGED <<fc_in, earn_in, earn_out, earn_called>>
    /\ UNCHANGED fcOthers

EstimateEarnings ==
    /\ fc_called
    /\ \E p \in PriceTiers, fee \in FeePcts :
          /\ earn_in' = [price_low |-> p[1], price_mid |-> p[2], price_high |-> p[3],
                         platform_fee_pct |-> fee]
          /\ earn_out' = estimate_earnings(fc_forecast, p[1], p[2], p[3], fee)
    /\ earn_called' = TRUE
    /\ UNCHANGED <<fc_in, fc_forecast, fc_called>>
    /\ UNCHANGED fcOthers

NextForecast == GenerateCreditForecast \/ EstimateEarnings

SpecForecast == InitForecast /\ [][NextForecast]_vars

BandOrdered(b) == b.low <= b.mid /\ b.mid <= b.high

(***************************************************************************)
(* C3 (as stated): for every annual band with low <= mid <= high, every    *)
(* horizon and every buffer_pool_pct, each entry returned by               *)
(* generate_credit_forecast satisfies low <= mid <= high.                  *)
(***************************************************************************)
C3_AsStated ==
    (fc_called /\ BandOrdered(fc_in.annual)) =>
        \A k \in 1..Len(fc_forecast) : BandOrdered(fc_forecast[k].credits_tco2e)

(***************************************************************************)
(* C3 (amended): for every annual band with low <= mid <= high, every      *)
(* horizon of at least 0 months and every buffer_pool_pct of at most 1.0   *)
(* (100 %), each entry returned by generate_credit_forecast satisfies      *)
(* low <= mid <= high.                                                     *)
(***************************************************************************)
C3_ForecastOrdered ==
    (fc_called /\ BandOrdered(fc_in.annual) /\ fc_in.buffer_pool_pct <= 100) =>
        \A k \in 1..Len(fc_forecast) :
            fc_forecast[k].months >= 0 => BandOrdered(fc_forecast[k].credits_tco2e)

\* the contract's horizons with a 10 % buffer on a strict band: four strict entries
C3_Witness ==
    /\ fc_called
    /\ fc_in.buffer_pool_pct = 10
    /\ fc_in.horizons_months = <<6, 12, 24, 36>>
    /\ Len(fc_forecast) = 4
    /\ \A k \in 1..Len(fc_forecast) :
          /\ fc_forecast[k].credits_tco2e.low < fc_forecast[k].credits_tco2e.mid
          /\ fc_forecast[k].credits_tco2e.mid < fc_forecast[k].credits_tco2e.high

EarningsPaired ==
    /\ Len(earn_out) = Len(fc_forecast)
    /\ \A k \in 1..Len(earn_out) : earn_out[k].months = fc_forecast[k].months

(***************************************************************************)
(* C4 (as stated): for every list of forecast entries whose credit bands   *)
(* satisfy low <= mid <= high, every entry returned by estimate_earnings   *)
(* satisfies net low <= net mid <= net high, for the price tiers and       *)
(* platform_fee_pct it is called with; the result has one entry per        *)
(* forecast entry, in the same order and with the same months.             *)
(***************************************************************************)
C4_AsStated ==
    earn_called =>
        /\ EarningsPaired
        /\ (\A k \in 1..Len(fc_forecast) : BandOrdered(fc_forecast[k].credits_tco2e))
             => \A k \in 1..Len(earn_out) : BandOrdered(earn_out[k].net_earnings_usd)

(***************************************************************************)
(* C4 (amended): for every list of forecast entries whose credit bands     *)
(* satisfy 0 <= low <= mid <= high, every entry returned by                *)
(* estimate_earnings satisfies net low <= net mid <= net high whenever     *)
(* the price tiers satisfy 0 <= price_low <= price_mid <= price_high and   *)
(* platform_fee_pct <= 1.0; for all inputs the result has one entry per    *)
(* forecast entry, in the same order and with the same months.             *)
(***************************************************************************)
C4_EarningsOrdered ==
    earn_called =>
        /\ EarningsPaired
        /\ ( /\ \A k \in 1..Len(fc_forecast) :
                    /\ 0 <= fc_forecast[k].credits_tco2e.low
                    /\ BandOrdered(fc_forecast[k].credits_tco2e)
             /\ 0 <= earn_in.price_low
             /\ earn_in.price_low <= earn_in.price_mid
             /\ earn_in.price_mid <= earn_in.price_high
             /\ earn_in.platform_fee_pct <= 100 )
             => \A k \in 1..Len(earn_out) : BandOrdered(earn_out[k].net_earnings_usd)

\* the pipeline's call: tiers 10/25/40, fee 10 %, on four strict non-negative entries
C4_Witness ==
    /\ earn_called
    /\ earn_in = [price_low |-> 10, price_mid |-> 25, price_high |-> 40,
                  platform_fee_pct |-> 10]
    /\ Len(earn_out) = 4
    /\ \A k \in 1..Len(fc_forecast) :
          /\ 0 < fc_forecast[k].credits_tco2e.low
          /\ fc_forecast[k].credits_tco2e.low < fc_forecast[k].credits_tco2e.mid
    /\ \A k \in 1..Len(earn_out) :
          /\ earn_out[k].net_earnings_usd.low < earn_out[k].net_earnings_usd.mid
          /\ earn_out[k].net_earnings_usd.mid < earn_out[k].net_earnings_usd.high

(***************************************************************************)
(* Credit scorer: app/core/score.py.  The numeric arguments are exact      *)
(* fractions (tCO2e, hectare, data quality and uncertainty as ratios);     *)
(* the components and the score come out in hundredths of a point          *)
(* (round(x, 2)).                                                          *)
(***************************************************************************)
\* min(25.0, data_quality_score * 25.0), without the lower clamp
DataComponentNoFloor(quality_score) == FracMin(Frac(25, 1), FracMul(quality_score, Frac(25, 1)))

\* data_component = max(0.0, min(25.0, data_quality_score * 25.0))
DataComponent(quality_score) ==
    FracMax(Frac(0, 1), FracMin(Frac(25, 1), FracMul(quality_score, Frac(25, 1))))

\* area_ha <= 1e-9, so that max(area_ha, 1e-9) is the floor
AreaAtFloor(area_ha) == area_ha.n <= area_ha.d \div 1000000000

\* reduction_component = max(0.0, min(25.0, mid / max(area_ha, 1e-9) * 5.0)).
\* With the divisor 1e-9 the cap is reached from mid >= 5e-9 on.
ReductionComponent(mid, area_ha) ==
    IF mid.n <= 0 THEN Frac(0, 1)
    ELSE IF AreaAtFloor(area_ha)
         THEN IF mid.n >= (mid.d + 199999999) \div 200000000
              THEN Frac(25, 1)
              ELSE FracMul(Frac(5 * mid.n, 1), Frac(1000000000, mid.d))
         ELSE FracMin(Frac(25, 1), FracMul(FracDiv(mid, area_ha), Frac(5, 1)))

\* penalty = max(0.0, min(10.0, uncertainty_pct * 10.0))
Penalty(uncertainty_pct) ==
    FracMax(Frac(0, 1), FracMin(Frac(10, 1), FracMul(uncertainty_pct, Frac(10, 1))))

AdditionalityComponent(additionality_flag) == IF additionality_flag THEN 20 ELSE 6
VerificationComponent(verification_ready) == IF verification_ready THEN 20 ELSE 10

compute_credit_score(annual_reduction_tco2e_mid, area_ha, quality_score, additionality_flag, verification_ready, uncertainty_pct) ==
    LET data == DataComponent(quality_score)
        red == ReductionComponent(annual_reduction_tco2e_mid, area_ha)
        add == AdditionalityComponent(additionality_flag)
        ver == VerificationComponent(verification_ready)
        pen == Penalty(uncertainty_pct)
        sum == FracSub(FracAdd(FracAdd(data, red), Frac(add + ver, 1)), pen)
        score == FracMax(Frac(0, 1), FracMin(Frac(100, 1), sum))
    IN  [carbon_credit_score_0_100 |-> RoundFrac(score, 100),
         components |->
            [data_completeness |-> RoundFrac(data, 100),
             reduction_potential |-> RoundFrac(red, 100),
             additionality |-> 100 * add,
             verification_readiness |-> 100 * ver,
             uncertainty_penalty |-> RoundFrac(pen, 100)]]

(***************************************************************************)
(* Specification SpecScore: one call of compute_credit_score.  The inputs  *)
(* are drawn in thousandths (milli-tCO2e, milli-hectare, ...).             *)
(***************************************************************************)
ScoreMids == {-2000, 0, 250, 4546, 200000}
ScoreAreas == {-1000, 0, 1500, 4000}
ScoreQualities == {-500, 0, 650, 1000, 1500}
ScoreUncertainties == {-100, 160, 400, 2000}

InitScore ==
    /\ \E m \in ScoreMids, a \in ScoreAreas, q \in ScoreQualities,
          af \in BOOLEAN, vr \in BOOLEAN, u \in ScoreUncertainties :
          sc_in = [annual_reduction_tco2e_mid |-> m, area_ha |-> a,
                   data_quality_score |-> q, additionality_flag |-> af,
                   verification_ready |-> vr, uncertainty_pct |-> u]
    /\ sc_out = <<>>
    /\ sc_called = FALSE
    /\ ScOthersIdle

ComputeCreditScore ==
    /\ ~sc_called
    /\ sc_out' = compute_credit_score(Frac(sc_in.annual_reduction_tco2e_mid, 1000),
                     Frac(sc_in.area_ha, 1000), Frac(sc_in.data_quality_score, 1000),
                     sc_in.additionality_flag, sc_in.verification_ready,
                     Frac(sc_in.uncertainty_pct, 1000))
    /\ sc_called' = TRUE
    /\ UNCHANGED sc_in
    /\ UNCHANGED scOthers

NextScore == ComputeCreditScore

SpecScore == InitScore /\ [][NextScore]_vars

(***************************************************************************)
(* C5: for all inputs of compute_credit_score the overall score is in      *)
(* [0, 100], data_completeness and reduction_potential are each in         *)
(* [0, 25], additionality and verification_readiness are each at most 20,  *)
(* and uncertainty_penalty is in [0, 10].                                  *)
(***************************************************************************)
C5_ScoreInRange ==
    sc_called =>
        /\ 0 <= sc_out.carbon_credit_score_0_100
        /\ sc_out.carbon_credit_score_0_100 <= 10000
        /\ 0 <= sc_out.components.data_completeness
        /\ sc_out.components.data_completeness <= 2500
        /\ 0 <= sc_out.components.reduction_potential
        /\ sc_out.components.reduction_potential <= 2500
        /\ sc_out.components.additionality <= 2000
        /\ sc_out.components.verification_readiness <= 2000
        /\ 0 <= sc_out.components.uncertainty_penalty
        /\ sc_out.components.uncertainty_penalty <= 1000

\* a call with a negative data quality, a negative area and an uncertainty above 1
C5_Witness ==
    /\ sc_called
    /\ sc_in.data_quality_score < 0
    /\ sc_in.area_ha < 0
    /\ sc_in.annual_reduction_tco2e_mid > 0
    /\ sc_in.uncertainty_pct > 1000
    /\ sc_out.components.reduction_potential = 2500
    /\ sc_out.components.uncertainty_penalty = 1000

(***************************************************************************)
(* Recommendation agent: app/services/agent_gemini.py.                     *)
(*                                                                         *)
(* A bundle (a Python dict) is a function from key strings to values.      *)
(* Where the code tests or depends on the type of a value, the value is    *)
(* tagged: JDict, JList, JStr, JNull.  USD amounts are whole dollars,      *)
(* uplifts are tenths of a tCO2e, the credit score is in hundredths of a   *)
(* point and the annual reduction in micro-tCO2e.  Text fields that the    *)
(* code copies through unchanged (implementation steps, evidence lists,    *)
(* opex, timeline, estimated terms, links) are left out of the records.    *)
(***************************************************************************)
JDict(d) == [type |-> "dict", dict |-> d]
JList(items) == [type |-> "list", items |-> items]
JStr(s) == [type |-> "str", str |-> s]
JNull == [type |-> "null"]

\* dict(d) with d[key] = value
DictSet(d, key, value) == [k \in (DOMAIN d) \cup {key} |-> IF k = key THEN value ELSE d[k]]

\* list.sort(key=...): stable, ascending; Less(a, b) is key(a) < key(b)
StableSort(s, Less(_, _)) ==
    LET n == Len(s)
        before(j, i) == \/ Less(s[j], s[i])
                        \/ (~Less(s[i], s[j]) /\ j < i)
        rank(i) == Cardinality({j \in 1..n : j # i /\ before(j, i)}) + 1
    IN  [p \in 1..n |-> s[CHOOSE i \in 1..n : rank(i) = p]]

\* s[:n]
Take(s, n) == SubSeq(s, 1, Min(n, Len(s)))

CatalogEntry(name, category, offer_type) == [provider_name |-> name, provider_category |-> category, offer_type |-> offer_type]

DEFAULT_OFFER_CATALOG ==
    << CatalogEntry("CRS Credit API", "credit_data_api", "credit_report_api"),
       CatalogEntry("CoBank (Farm Credit System)", "bank_lender", "ag_loan_or_sustainability_linked_credit"),
       CatalogEntry("Farm Credit (network of local associations)", "bank_lender", "ag_operating_loan_or_conservation_finance"),
       CatalogEntry("Rabobank / Rabo AgriFinance (US ag finance)", "bank_lender", "ag_financing_clean_energy_or_transition"),
       CatalogEntry("Farmer Mac (via lenders / programs)", "bank_lender", "mortgage_liquidity_or_sustainability_incentive_program"),
       CatalogEntry("Indigo Ag (carbon program / credits)", "carbon_program_marketplace", "carbon_program_enrollment"),
       CatalogEntry("Truterra (farmer sustainability program)", "carbon_program_marketplace", "sustainability_program_or_carbon_pathway"),
       CatalogEntry("Climate Action Reserve (CAR)", "carbon_registry", "registry_methodology_and_issuance"),
       CatalogEntry("American Carbon Registry (ACR)", "carbon_registry", "registry_methodology_and_issuance"),
       CatalogEntry("Verra (VCS)", "carbon_registry", "registry_methodology_and_issuance"),
       CatalogEntry("Gold Standard", "carbon_registry", "registry_methodology_and_issuance"),
       CatalogEntry("USDA NRCS EQIP / CSP", "public_program", "cost_share_conservation_practices"),
       CatalogEntry("USDA FSA Conservation Loans (guaranteed via lenders)", "public_program", "conservation_loan_guarantee"),
       CatalogEntry("CDFA Healthy Soils Program (California)", "public_program", "grant_incentive_for_ghg_reduction"),
       CatalogEntry("CDFA SWEEP (California)", "public_program", "irrigation_efficiency_grant") >>

\* _with_default_offer_catalog: a missing or empty offer_catalog (<<>>) is
\* replaced by DEFAULT_OFFER_CATALOG
with_default_offer_catalog(payload) ==
    IF payload.offer_catalog = <<>>
    THEN [payload EXCEPT !.offer_catalog = DEFAULT_OFFER_CATALOG]
    ELSE payload

\* {_clean(f.crop_type).lower() for f in fields if f.crop_type}
PayloadCrops(payload) ==
    {Lower(Clean(payload.fields[i].crop_type)) :
        i \in {j \in 1..Len(payload.fields) : payload.fields[j].crop_type # ""}}

FieldNames(payload) == [i \in 1..Len(payload.fields) |-> payload.fields[i].field_name]

RiceFieldNames(payload) ==
    LET idx == {j \in 1..Len(payload.fields) : Lower(Clean(payload.fields[j].crop_type)) = "rice"}
        keep(i) == IF i \in idx THEN <<payload.fields[i].field_name>> ELSE <<>>
    IN  Flatten([i \in 1..Len(payload.fields) |-> keep(i)])

Measure(title, field_names, capex_high, uplift_low, uplift_high, risk_level) == [title |-> title, field_names |-> field_names, capital_required_usd |-> JDict([low |-> 0, high |-> capex_high]), expected_credit_uplift_tco2e_per_year |-> [low |-> uplift_low, high |-> uplift_high], risk_level |-> risk_level]

\* the candidate measures, in the order they are appended
CandidateMeasures(payload) ==
    LET field_names == FieldNames(payload)
        crops == IF PayloadCrops(payload) = {} THEN {"corn"} ELSE PayloadCrops(payload)
        rice_fields == RiceFieldNames(payload)
        tillage_capex == IF payload.constraints.no_new_equipment THEN 500 ELSE 8000
    IN  << Measure("Split nitrogen applications + 4R nutrient management", field_names, 1500, 3, 15, "low"),
           Measure("Irrigation scheduling (avoid over-watering) + optional soil moisture sensors", field_names, 5000, 1, 8, "low"),
           Measure("Reduce tillage passes / adopt reduced tillage where feasible", field_names, tillage_capex, 2, 12, "medium") >>
        \o (IF "rice" \in crops
            THEN << Measure("Rice: adopt Alternate Wetting and Drying (AWD) where suitable",
                            IF rice_fields # <<>> THEN rice_fields ELSE field_names, 2000, 5, 30, "medium") >>
            ELSE <<>>)

\* constraints.max_upfront_cost_usd as a float, 999999 when absent or not a number
MaxCapex(payload) == AsFloat(payload.constraints.max_upfront_cost_usd, 999999)

\* the note a kept measure gets when its high-end CAPEX exceeds the limit
CapexNote(max_capex) == <<[text |-> "High-end CAPEX may exceed your max_upfront_cost_usd=", value |-> max_capex]>>

\* the filter dropping a measure as soon as its high end exceeds the limit
FilterMeasureStrict(m, max_capex) ==
    IF m.capital_required_usd.dict.high <= max_capex THEN <<m>> ELSE <<>>

\* one step of the CAPEX filter: <<>> when the measure is dropped
FilterMeasure(m, max_capex) ==
    IF m.capital_required_usd.dict.low <= max_capex
    THEN IF m.capital_required_usd.dict.high > max_capex
         THEN <<DictSet(m, "notes", CapexNote(max_capex))>>
         ELSE <<m>>
    ELSE <<>>

RiskOrder(risk_level) ==
    CASE risk_level = "low" -> 0
      [] risk_level = "medium" -> 1
      [] risk_level = "high" -> 2
      [] OTHER -> 1

\* the key without its second component
MeasureLessRiskOnly(a, b) == RiskOrder(a.risk_level) < RiskOrder(b.risk_level)

\* key = (risk_order, -uplift high), compared as tuples
MeasureLess(a, b) ==
    \/ RiskOrder(a.risk_level) < RiskOrder(b.risk_level)
    \/ /\ RiskOrder(a.risk_level) = RiskOrder(b.risk_level)
       /\ a.expected_credit_uplift_tco2e_per_year.high > b.expected_credit_uplift_tco2e_per_year.high

HeuristicMeasures(payload) ==
    LET measures == CandidateMeasures(payload)
        filtered == Flatten([i \in 1..Len(measures) |-> FilterMeasure(measures[i], MaxCapex(payload))])
    IN  Take(StableSort(filtered, MeasureLess), 6)

(***************************************************************************)
(* _heuristic_rank_offers                                                  *)
(***************************************************************************)
DefaultOfferType(cat) ==
    CASE cat = "carbon_program_marketplace" -> "carbon_program_enrollment"
      [] cat \in {"bank_lender", "lender", "credit_union"} -> "financing"
      [] cat = "carbon_registry" -> "registry_pathway"
      [] cat = "public_program" -> "incentive_or_grant"
      [] cat = "credit_data_api" -> "credit_report_api"
      [] OTHER -> "program_support"

\* the match score before clamping and the reasons, for one catalog category
MatchOf(cat, score, annual_mid, has_rice) ==
    CASE cat = "carbon_program_marketplace" ->
            [match |-> 50 + 15 + (IF annual_mid >= 5000000 THEN 15 ELSE 0) + (IF has_rice THEN 5 ELSE 0),
             why |-> <<"Direct path to generate/sell credits via a program administrator.">>
                     \o (IF annual_mid >= 5000000 THEN <<"Projected reductions are meaningful enough to justify enrollment effort.">> ELSE <<>>)
                     \o (IF has_rice THEN <<"Rice methane reductions can be material if AWD practices are adopted.">> ELSE <<>>)]
      [] cat = "carbon_registry" ->
            [match |-> 50 + 8 + (IF annual_mid >= 5000000 THEN 5 ELSE 0),
             why |-> <<"Registry pathway (usually via a developer/aggregator) for issuance/crediting.">>
                     \o (IF annual_mid >= 5000000 THEN <<"Scale may support registry-backed pathway through a program.">> ELSE <<>>)]
      [] cat = "public_program" ->
            [match |-> 50 + 15,
             why |-> <<"Public programs can help finance adoption and documentation.">>]
      [] cat \in {"bank_lender", "lender", "credit_union"} ->
            [match |-> 50 + (IF score >= 6000 THEN 15 ELSE 0) + (IF annual_mid >= 3000000 THEN 10 ELSE 0),
             why |-> <<"Financing option to cover adoption costs or bridge cashflow.">>
                     \o (IF score >= 6000 THEN <<"Score suggests stronger trackability/verification story.">> ELSE <<>>)
                     \o (IF annual_mid >= 3000000 THEN <<"Projected reductions support a climate-finance narrative.">> ELSE <<>>)]
      [] cat = "credit_data_api" ->
            [match |-> 50 + 5,
             why |-> <<"Useful for underwriting workflows (credit data), not carbon issuance.">>]
      [] OTHER ->
            [match |-> 50,
             why |-> <<"General option included from provided catalog.">>]

\* the offer built for one catalog entry: <<>> when its cleaned name is empty
RankedOffer(item, score, annual_mid, has_rice) ==
    LET name == Clean(item.provider_name)
        cat == Lower(Clean(item.provider_category))
        offer_type == IF Clean(item.offer_type) = "" THEN DefaultOfferType(cat) ELSE Clean(item.offer_type)
        m == MatchOf(cat, score, annual_mid, has_rice)
    IN  IF name = "" THEN <<>>
        ELSE << [provider_name |-> name,
                 provider_category |-> cat,
                 offer_type |-> offer_type,
                 match_score_0_100 |-> Max(0, Min(100, m.match)),
                 why_ranked |-> Take(m.why, 4)] >>

\* the key with its sign dropped: ascending by score
OfferLessAscending(a, b) == a.match_score_0_100 < b.match_score_0_100

\* key = -match_score_0_100
OfferLess(a, b) == a.match_score_0_100 > b.match_score_0_100

OFFERS_DISCLAIMER == "These are suggested providers/programs to explore. Availability and eligibility vary by location and provider. This is not financial advice."

heuristic_rank_offers(payload) ==
    LET catalog == payload.offer_catalog
        score == AsFloat(payload.summary.carbon_credit_score_0_100, 0)
        annual_mid == AsFloat(payload.summary.annual_reduction_tco2e.mid, 0)
        has_rice == "rice" \in PayloadCrops(payload)
        ranked == Flatten([i \in 1..Len(catalog) |-> RankedOffer(catalog[i], score, annual_mid, has_rice)])
    IN  [disclaimer |-> OFFERS_DISCLAIMER,
         ranked_offers |-> JList(Take(StableSort(ranked, OfferLess), 6))]

HEURISTIC_NEXT_STEPS ==
    << "Choose 1-2 measures to implement in the next 30-60 days (low risk first).",
       "Start a simple log: fertilizer applications (date, product, rate), tillage operations, irrigation events.",
       "Save receipts/invoices for any inputs or equipment changes.",
       "Schedule an appraiser visit after the first verified practice change is in place." >>

HEURISTIC_EVIDENCE_CHECKLIST ==
    << "Confirm field boundary/area and crop type",
       "Baseline fertilizer receipts and application records (previous season)",
       "Project-season fertilizer receipts + application log (dates, rates)",
       "Tillage operation log (passes reduced) and optional fuel receipts",
       "Irrigation logs or pump runtime logs (if applicable)",
       "Photos of practice changes and field conditions" >>

HEURISTIC_NOTES ==
    << "Fallback recommendations used (Gemini not called or SDK unavailable).",
       "Capital estimates and offer terms are approximate ranges for MVP purposes." >>

heuristic_recommendations(payload) ==
    LET measures == HeuristicMeasures(payload)
    IN  [recommended_measures |-> JList([i \in 1..Len(measures) |-> JDict(measures[i])]),
         what_to_do_next |-> JList(HEURISTIC_NEXT_STEPS),
         appraiser_evidence_checklist |-> JList(HEURISTIC_EVIDENCE_CHECKLIST),
         offers |-> JDict(heuristic_rank_offers(payload)),
         notes |-> JList(HEURISTIC_NOTES)]

\* _merge_offers_if_missing, for a dict agent_out
merge_offers_if_missing(agent_out, payload) ==
    IF "offers" \notin DOMAIN agent_out \/ agent_out["offers"].type # "dict"
    THEN DictSet(agent_out, "offers", JDict(heuristic_rank_offers(payload)))
    ELSE IF "ranked_offers" \notin DOMAIN agent_out["offers"].dict
         THEN DictSet(agent_out, "offers",
                      JDict(DictSet(agent_out["offers"].dict, "ranked_offers",
                                    heuristic_rank_offers(payload).ranked_offers)))
         ELSE agent_out

(***************************************************************************)
(* The generative service.  One SDK attempt either raises (SDK missing,    *)
(* network or API error) or answers with a text.  A text is modelled by    *)
(* how it embeds a JSON object:                                            *)
(*   "json_object"          the whole text is the object                   *)
(*   "fenced_object"        the object wrapped in other text               *)
(*   "array_of_one_object"  a JSON array holding the object                *)
(*   "array_of_two_objects" a JSON array holding the object twice          *)
(*   "prose"                text without braces                            *)
(*   "broken"               braces around something that is not JSON       *)
(***************************************************************************)
Raises == [kind |-> "raises"]
Answers(text_kind, obj) == [kind |-> "text", text |-> [kind |-> text_kind, obj |-> obj]]

\* _extract_json: the dict parsed from the text, or None
extract_json(text) ==
    CASE text.kind = "json_object" -> JDict(text.obj)          \* json.loads(text) is a dict
      [] text.kind = "fenced_object" -> JDict(text.obj)        \* slice first "{" .. last "}"
      [] text.kind = "array_of_one_object" -> JDict(text.obj)  \* a list; the slice is the object
      [] text.kind = "array_of_two_objects" -> JNull           \* the slice "{..}, {..}" does not parse
      [] OTHER -> JNull

\* truth value of Optional[dict]
Truthy(parsed) == parsed.type = "dict" /\ DOMAIN parsed.dict # {}

\* the body of one try block up to "parsed = _extract_json(text)"
SdkAttempt(outcome) ==
    IF outcome.kind = "raises"
    THEN [raised |-> TRUE, parsed |-> JNull]
    ELSE [raised |-> FALSE, parsed |-> extract_json(outcome.text)]

\* _try_call_gemini without its except clauses: an SDK exception propagates
try_call_gemini_uncaught(payload, service) ==
    IF ~service.api_key THEN [raised |-> FALSE, out |-> JNull, calls |-> 0]
    ELSE LET first == SdkAttempt(service.attempts[1])
             second == SdkAttempt(service.attempts[2])
         IN  IF first.raised THEN [raised |-> TRUE, out |-> JNull, calls |-> 1]
             ELSE IF Truthy(first.parsed) THEN [raised |-> FALSE, out |-> first.parsed, calls |-> 1]
             ELSE IF second.raised THEN [raised |-> TRUE, out |-> JNull, calls |-> 2]
             ELSE IF Truthy(second.parsed) THEN [raised |-> FALSE, out |-> second.parsed, calls |-> 2]
             ELSE [raised |-> FALSE, out |-> JNull, calls |-> 2]

\* _try_call_gemini: the parsed dict or None; calls counts the SDK attempts made
try_call_gemini(payload, service) ==
    IF ~service.api_key THEN [raised |-> FALSE, out |-> JNull, calls |-> 0]
    ELSE LET first == SdkAttempt(service.attempts[1])
             second == SdkAttempt(service.attempts[2])
         IN  IF ~first.raised /\ Truthy(first.parsed)
             THEN [raised |-> FALSE, out |-> first.parsed, calls |-> 1]
             \* except Exception: pass, or a falsy parsed value: next SDK
             ELSE IF second.raised THEN [raised |-> FALSE, out |-> JNull, calls |-> 2]
             ELSE IF Truthy(second.parsed) THEN [raised |-> FALSE, out |-> second.parsed, calls |-> 2]
             ELSE [raised |-> FALSE, out |-> JNull, calls |-> 2]

\* get_recommendations: [raised, out, calls, catalog]; catalog is the catalog in force
get_recommendations(payload, service) ==
    LET p == with_default_offer_catalog(payload)
        r == try_call_gemini(p, service)
    IN  IF r.raised
        THEN [raised |-> TRUE, out |-> <<>>, calls |-> r.calls]
        ELSE IF r.out.type = "dict" /\ "recommended_measures" \in DOMAIN r.out.dict
             THEN [raised |-> FALSE, out |-> merge_offers_if_missing(r.out.dict, p), calls |-> r.calls]
             ELSE [raised |-> FALSE, out |-> heuristic_recommendations(p), calls |-> r.calls]

(***************************************************************************)
(* Specification SpecRec: one call of get_recommendations.                 *)
(***************************************************************************)
PayloadField(name, crop) == [field_name |-> name, crop_type |-> crop]

RecFieldLists ==
    { <<PayloadField("North 40", "corn")>>,
      <<PayloadField("North 40", "corn"), PayloadField("Paddy", "Rice")>> }

\* a catalog supplied by the caller: a lender without offer type, an entry
\* whose name is blank, and an entry whose name carries surrounding blanks
CUSTOM_OFFER_CATALOG ==
    << CatalogEntry("Acme Ag Bank", "lender", ""),
       CatalogEntry("   ", "public_program", ""),
       CatalogEntry(" Prairie Carbon Co-op ", "carbon_program_marketplace", "") >>

\* <<>> is a payload without offer_catalog
RecCatalogs == {<<>>, CUSTOM_OFFER_CATALOG}

\* max_upfront_cost_usd: below every low end, the high end of the first
\* measure, the pipeline's value, and not a number
RecCaps == {NumCell(-1), NumCell(1500), NumCell(5000), NoCell}

RecPayloads ==
    { [summary |-> [annual_reduction_tco2e |-> [mid |-> NumCell(mid)],
                    carbon_credit_score_0_100 |-> NumCell(score)],
       fields |-> fields,
       constraints |-> [max_upfront_cost_usd |-> cap, no_new_equipment |-> no_new_eq],
       offer_catalog |-> catalog] :
         mid \in {1000000, 6000000}, score \in {4500, 7200}, fields \in RecFieldLists,
         cap \in RecCaps, no_new_eq \in BOOLEAN, catalog \in RecCatalogs }

ServiceMeasure == Measure("Plant a winter cover crop", <<"North 40">>, 1200, 4, 20, "low")

ServiceOffer(name) == [provider_name |-> name, provider_category |-> "carbon_program_marketplace", offer_type |-> "carbon_program_enrollment", match_score_0_100 |-> 90, why_ranked |-> <<"Suggested by the generative service.">>]

WellFormedMeasures == JList(<<JDict(ServiceMeasure)>>)

\* objects the service can answer with
ObjEmpty == <<>>
ObjNotesOnly == [notes |-> JList(<<"No recommendation available.">>)]
ObjOffersOnly == [offers |-> JDict([ranked_offers |-> JList(<<ServiceOffer("Acme Carbon Finance")>>)])]
ObjMeasuresOnly == [recommended_measures |-> WellFormedMeasures]
ObjOffersNotDict == [recommended_measures |-> WellFormedMeasures, offers |-> JStr("none")]
ObjOffersNoRanking == [recommended_measures |-> WellFormedMeasures, offers |-> JDict([disclaimer |-> "Not financial advice."])]
ObjCatalogOffers == [recommended_measures |-> WellFormedMeasures, what_to_do_next |-> JList(<<"Pick one measure.">>), offers |-> JDict([ranked_offers |-> JList(<<ServiceOffer("Indigo Ag (carbon program / credits)"), ServiceOffer("Acme Ag Bank")>>)])]
ObjFabricatedOffer == [recommended_measures |-> WellFormedMeasures, offers |-> JDict([ranked_offers |-> JList(<<ServiceOffer("Acme Carbon Finance")>>)])]
ObjMeasuresNotList == [recommended_measures |-> JStr("none")]
ObjMeasuresNull == [recommended_measures |-> JNull]
ObjMeasureNotDict == [recommended_measures |-> JList(<<JDict(ServiceMeasure), JStr("Plant a winter cover crop")>>)]
ObjMeasureCapexNull == [recommended_measures |-> JList(<<JDict([ServiceMeasure EXCEPT !.capital_required_usd = JNull])>>)]

ServiceObjects ==
    { ObjEmpty, ObjNotesOnly, ObjOffersOnly, ObjMeasuresOnly, ObjOffersNotDict,
      ObjOffersNoRanking, ObjCatalogOffers, ObjFabricatedOffer, ObjMeasuresNotList,
      ObjMeasuresNull, ObjMeasureNotDict, ObjMeasureCapexNull }

SdkOutcomes ==
    {Raises, Answers("prose", ObjEmpty), Answers("broken", ObjEmpty)}
        \cup {Answers("json_object", o) : o \in ServiceObjects}
        \cup {Answers(k, ObjCatalogOffers) : k \in {"fenced_object", "array_of_one_object", "array_of_two_objects"}}
        \cup {Answers("fenced_object", ObjNotesOnly)}

\* GEMINI_API_KEY unset: no SDK is called
NotConfigured == [api_key |-> FALSE, attempts |-> <<Raises, Raises>>]

Services ==
    {NotConfigured} \cup {[api_key |-> TRUE, attempts |-> <<a, b>>] : a \in SdkOutcomes, b \in SdkOutcomes}

InitRec ==
    /\ rec_payload \in RecPayloads
    /\ rec_service \in Services
    /\ rec_result = <<>>
    /\ rec_called = FALSE
    /\ RecOthersIdle

GetRecommendations ==
    /\ ~rec_called
    /\ rec_result' = get_recommendations(rec_payload, rec_service)
    /\ rec_called' = TRUE
    /\ UNCHANGED <<rec_payload, rec_service>>
    /\ UNCHANGED recOthers

NextRec == GetRecommendations

SpecRec == InitRec /\ [][NextRec]_vars

\* provider names of the catalog in force for a payload
CatalogNames(payload) ==
    LET catalog == with_default_offer_catalog(payload).offer_catalog
    IN  {catalog[i].provider_name : i \in 1..Len(catalog)}

\* provider names in offers.ranked_offers of a bundle
RankedOfferNames(out) ==
    IF /\ "offers" \in DOMAIN out
       /\ out["offers"].type = "dict"
       /\ "ranked_offers" \in DOMAIN out["offers"].dict
       /\ out["offers"].dict["ranked_offers"].type = "list"
    THEN LET ranked == out["offers"].dict["ranked_offers"].items
         IN  {ranked[i].provider_name : i \in 1..Len(ranked)}
    ELSE {}

(***************************************************************************)
(* C6: every provider_name in offers.ranked_offers of the bundle returned  *)
(* by get_recommendations is the provider_name of an entry of the offer    *)
(* catalog supplied in the payload (the default catalog when none is       *)
(* supplied), whether the bundle comes from the generative service or      *)
(* from the heuristic.                                                     *)
(***************************************************************************)
C6_OffersFromCatalog ==
    (rec_called /\ ~rec_result.raised)
        => RankedOfferNames(rec_result.out) \subseteq CatalogNames(rec_payload)

\* the bundle the deterministic heuristic produces for the payload of the call
HeuristicBundle == heuristic_recommendations(with_default_offer_catalog(rec_payload))

\* the outcomes of the SDK attempts the call made
AttemptsMade == {rec_service.attempts[k] : k \in 1..rec_result.calls}

\* an attempt that raised, answered with a text that is not a JSON object, or
\* answered with an object without recommended_measures
FailedAsStated(o) ==
    \/ o.kind = "raises"
    \/ /\ o.kind = "text"
       /\ \/ o.text.kind # "json_object"
          \/ "recommended_measures" \notin DOMAIN o.text.obj

\* an attempt that raised, answered with a text from which no JSON object can
\* be extracted, or answered with an object without recommended_measures
FailedNoObject(o) ==
    \/ o.kind = "raises"
    \/ /\ o.kind = "text"
       /\ \/ extract_json(o.text).type # "dict"
          \/ "recommended_measures" \notin DOMAIN extract_json(o.text).dict

(***************************************************************************)
(* C7 (as stated): get_recommendations never raises because of the         *)
(* generative service: when the service is not configured, raises,         *)
(* returns text that is not a JSON object, or returns an object without    *)
(* the required keys, get_recommendations returns exactly the bundle the   *)
(* deterministic heuristic produces for the same payload.                  *)
(***************************************************************************)
C7_AsStated ==
    rec_called =>
        /\ ~rec_result.raised
        /\ (\A o \in AttemptsMade : FailedAsStated(o)) => rec_result.out = HeuristicBundle

(***************************************************************************)
(* C7 (amended): get_recommendations never raises because of the           *)
(* generative service: when the service is not configured, or every SDK    *)
(* attempt made raises, returns text from which no JSON object can be      *)
(* extracted (neither the text nor the slice from its first "{" to its     *)
(* last "}" parses as an object), or returns an object without             *)
(* recommended_measures, get_recommendations returns exactly the bundle    *)
(* the deterministic heuristic produces for the same payload.              *)
(***************************************************************************)
C7_FallsBackToHeuristic ==
    rec_called =>
        /\ ~rec_result.raised
        /\ (\A o \in AttemptsMade : FailedNoObject(o)) => rec_result.out = HeuristicBundle

\* the first SDK raises, the second answers with prose: the heuristic bundle, with offers
C7_Witness ==
    /\ rec_called
    /\ rec_service.api_key
    /\ rec_service.attempts[1].kind = "raises"
    /\ rec_service.attempts[2] = Answers("prose", ObjEmpty)
    /\ rec_result.calls = 2
    /\ ~rec_result.raised
    /\ rec_result.out = HeuristicBundle
    /\ Len(rec_result.out.recommended_measures.items) >= 3
    /\ Len(rec_result.out.offers.dict.ranked_offers.items) = 6

(***************************************************************************)
(* Orchestrator: app/pipelines/run_full.py, with app/pipelines/ingest.py   *)
(* and app/services/units.py.  Area values are in thousandths of their     *)
(* unit; reductions are in micro-tCO2e as in estimates.csv.                *)
(***************************************************************************)
\* area_to_hectares, in milli-hectare; NoCell stands for the ValueError on an
\* unsupported unit.  Acres are rounded to the milli-hectare; hectares and
\* square metres (whole multiples of 10 m2 in the model) convert exactly.
area_to_hectares(value, unit) ==
    LET u == Lower(Clean(unit))
    IN  CASE u \in {"ha", "hectare", "hectares"} -> NumCell(value)
          [] u \in {"acre", "acres"} -> NumCell(RoundDiv(value * 4047, 10000))
          [] u \in {"sqm", "m2", "square_meter", "square_meters"} -> NumCell(value \div 10000)
          [] OTHER -> NoCell

\* the exception area_to_hectares raises for a unit: "none" for an accepted one
area_error(unit) == IF area_to_hectares(0, unit).ok THEN "none" ELSE "ValueError"

\* int(req.analysis_window.start_date[:4]), as written to the year column;
\* ok is FALSE when int() raises ValueError
YearOf(start_date) ==
    CASE start_date = "2024-01-01" -> [ok |-> TRUE, v |-> "2024"]
      [] start_date = "2023-04-01" -> [ok |-> TRUE, v |-> "2023"]
      [] OTHER -> [ok |-> FALSE, v |-> ""]

\* f"{prefix}_{uuid4().hex[:10]}": a fresh identifier, different for every
\* run and every call
Uid(prefix, run, k) == prefix \o ToString(run) \o "_" \o ToString(k)

\* the events _ingest_request adds for one season
PracticeEvents(sid, practices) ==
    Repeat(EventRow(sid, "tillage", EmptyAmount), practices.tillage_passes)
    \o <<EventRow(sid, "fertilizer", Amount(practices.fertilizer_amount))>>
    \o Repeat(EventRow(sid, "irrigation", EmptyAmount), practices.irrigation_events)

\* one iteration of the loop over req.fields: the rows it appends and whether
\* it raised (add_field on the unit, add_field_season on the year)
IngestField(run, i, f, start_date) ==
    LET area == area_to_hectares(f.area_value, f.area_unit)
        year == YearOf(start_date)
        field_id == Uid("field_", run, i)
        baseline_season_id == Uid("season_", run, 2 * i - 1)
        project_season_id == Uid("season_", run, 2 * i)
    IN  IF ~area.ok
        THEN [fields |-> <<>>, seasons |-> <<>>, events |-> <<>>, raised |-> TRUE,
              error |-> area_error(f.area_unit)]
        ELSE IF ~year.ok
        THEN [fields |-> <<FieldRow(field_id, f.field_name, area)>>,
              seasons |-> <<>>, events |-> <<>>, raised |-> TRUE, error |-> "ValueError"]
        ELSE [fields |-> <<FieldRow(field_id, f.field_name, area)>>,
              seasons |-> <<SeasonRow(baseline_season_id, field_id, year.v, "baseline", f.crop_type),
                            SeasonRow(project_season_id, field_id, year.v, "project", f.crop_type)>>,
              events |-> PracticeEvents(baseline_season_id, f.baseline)
                         \o PracticeEvents(project_season_id, f.project),
              raised |-> FALSE, error |-> "none"]

RECURSIVE IngestFields(_, _, _, _)
IngestFields(run, i, fields, start_date) ==
    IF i > Len(fields)
    THEN [fields |-> <<>>, seasons |-> <<>>, events |-> <<>>, raised |-> FALSE, error |-> "none"]
    ELSE LET one == IngestField(run, i, fields[i], start_date)
         IN  IF one.raised THEN one
             ELSE LET rest == IngestFields(run, i + 1, fields, start_date)
                  IN  [fields |-> one.fields \o rest.fields,
                       seasons |-> one.seasons \o rest.seasons,
                       events |-> one.events \o rest.events,
                       raised |-> rest.raised, error |-> rest.error]

\* _ingest_request: the rows appended to each table, and whether it raised
ingest_request(run, req) ==
    LET rows == IngestFields(run, 1, req.fields, req.start_date)
    IN  [farms |-> <<[farm_id |-> Uid("farm_", run, 1), farm_name |-> req.farm_name]>>,
         fields |-> rows.fields, seasons |-> rows.seasons, events |-> rows.events,
         raised |-> rows.raised, error |-> rows.error]

\* input_fields_by_name.get(fname): the last request field of that name
OrigField(req, fname) ==
    LET idx == {i \in 1..Len(req.fields) : req.fields[i].field_name = fname}
    IN  IF idx = {} THEN [found |-> FALSE]
        ELSE [found |-> TRUE, field |-> req.fields[CHOOSE i \in idx : \A j \in idx : j <= i]]

\* the FieldResult named by the generated field id instead of the field name
PerFieldEntryById(r, field_rows, req) ==
    [field_name |-> Clean(r.field_id), crop_type |-> r.crop_type, input |-> [found |-> FALSE],
     annual_reduction_tco2e |-> [low |-> RoundDiv(r.low_tco2e, 1000), mid |-> RoundDiv(r.estimated_tco2e, 1000), high |-> RoundDiv(r.high_tco2e, 1000)],
     data_quality_score |-> r.data_quality_score, assumptions |-> r.assumptions]

\* the FieldResult built for one row of estimates.csv
PerFieldEntry(r, field_rows, req) ==
    LET fid == Clean(r.field_id)
        known == fid \in FieldIds(field_rows)
        fname == IF known THEN FieldOf(field_rows, fid).field_name ELSE fid
        orig == OrigField(req, fname)
    IN  [field_name |-> fname,
         crop_type |-> r.crop_type,
         input |-> IF orig.found
                   THEN [found |-> TRUE,
                         latitude |-> orig.field.latitude, longitude |-> orig.field.longitude,
                         area_value |-> orig.field.area_value, area_unit |-> orig.field.area_unit,
                         baseline |-> orig.field.baseline, project |-> orig.field.project]
                   ELSE [found |-> FALSE],
         annual_reduction_tco2e |-> [low |-> RoundDiv(r.low_tco2e, 1000),
                                     mid |-> RoundDiv(r.estimated_tco2e, 1000),
                                     high |-> RoundDiv(r.high_tco2e, 1000)],
         data_quality_score |-> r.data_quality_score,
         assumptions |-> r.assumptions]

\* area_ha of the field of an estimate row, 0.0 when the field is unknown
AreaOfRow(r, field_rows) ==
    IF Clean(r.field_id) \in FieldIds(field_rows)
    THEN AsFloat(FieldOf(field_rows, Clean(r.field_id)).area_ha, 0)
    ELSE 0

\* step 3: the totals and the per-field results
aggregate(est_rows, field_rows, req) ==
    LET rows == SelectSeq(est_rows, LAMBDA r : Clean(r.field_id) # "")
        n == Len(rows)
    IN  [total_low |-> SeqSum([k \in 1..n |-> rows[k].low_tco2e]),
         total_mid |-> SeqSum([k \in 1..n |-> rows[k].estimated_tco2e]),
         total_high |-> SeqSum([k \in 1..n |-> rows[k].high_tco2e]),
         total_area_ha |-> SeqSum([k \in 1..n |-> AreaOfRow(rows[k], field_rows)]),
         avg_dq |-> Frac(SeqSum([k \in 1..n |-> rows[k].data_quality_score]), 1000 * Max(n, 1)),
         per_field |-> [k \in 1..n |-> PerFieldEntry(rows[k], field_rows, req)]]

\* uncertainty_pct = min(0.40, max(0.0, (high - low) / (2 * mid))) when mid > 0, else 0.40
AggregateUncertainty(agg) ==
    IF agg.total_mid > 0
    THEN FracMin(Frac(40, 100), FracMax(Frac(0, 1), Frac(agg.total_high - agg.total_low, 2 * agg.total_mid)))
    ELSE Frac(40, 100)

\* the comparison with >= in place of >
AdditionalityFlagAtLeast(agg) == agg.total_mid >= 250000

\* bool(total_mid > 0.25)
AdditionalityFlag(agg) == agg.total_mid > 250000

\* step 4: the call of compute_credit_score
score_stage(agg) ==
    compute_credit_score(Frac(agg.total_mid, 1000000),
                         IF agg.total_area_ha > 0 THEN Frac(agg.total_area_ha, 1000) ELSE Frac(1, 1000000000),
                         agg.avg_dq, AdditionalityFlag(agg), TRUE, AggregateUncertainty(agg))

HORIZONS == <<6, 12, 24, 36>>

\* step 5, with buffer_pool_pct = 0.10
forecast_stage(agg) ==
    generate_credit_forecast(Frac(agg.total_low, 1000000), Frac(agg.total_mid, 1000000),
                             Frac(agg.total_high, 1000000), HORIZONS, 10)

\* step 6, with prices 10 / 25 / 40 and platform_fee_pct = 0.10
earnings_stage(forecast_raw) == estimate_earnings(forecast_raw, 10, 25, 40, 10)

\* the payload of step 7
agent_payload(agg, score_result) ==
    [summary |-> [annual_reduction_tco2e |-> [mid |-> NumCell(agg.total_mid)],
                  carbon_credit_score_0_100 |-> NumCell(score_result.carbon_credit_score_0_100)],
     fields |-> [k \in 1..Len(agg.per_field) |->
                    PayloadField(agg.per_field[k].field_name, agg.per_field[k].crop_type)],
     constraints |-> [max_upfront_cost_usd |-> NumCell(5000), no_new_equipment |-> FALSE],
     offer_catalog |-> <<>>]

\* whether the comprehension of step 7 can build a RecommendedMeasure from an
\* item: m.get(...) needs a dict, and so does m.get("capital_required_usd", {}).get(...)
MeasureUsable(item) ==
    /\ item.type = "dict"
    /\ "capital_required_usd" \in DOMAIN item.dict => item.dict["capital_required_usd"].type = "dict"

RecommendedMeasure(m) ==
    [title |-> IF "title" \in DOMAIN m THEN m["title"] ELSE "(untitled)",
     risk_level |-> IF "risk_level" \in DOMAIN m THEN m["risk_level"] ELSE "medium",
     field_names |-> IF "field_names" \in DOMAIN m THEN m["field_names"] ELSE <<>>,
     capital_required_usd |-> IF "capital_required_usd" \in DOMAIN m
                              THEN m["capital_required_usd"].dict
                              ELSE [low |-> 0, high |-> 0],
     expected_credit_uplift_tco2e_per_year |->
         IF "expected_credit_uplift_tco2e_per_year" \in DOMAIN m
         THEN m["expected_credit_uplift_tco2e_per_year"]
         ELSE [low |-> 0, high |-> 0]]

\* recommendations = [RecommendedMeasure(...) for m in agent_out.get("recommended_measures", [])]:
\* the list, or raised when the iteration or an item fails
build_recommendations(agent_out) ==
    IF "recommended_measures" \notin DOMAIN agent_out
    THEN [raised |-> FALSE, items |-> <<>>]
    ELSE LET v == agent_out["recommended_measures"]
         IN  CASE v.type = "list" ->
                    IF \A k \in 1..Len(v.items) : MeasureUsable(v.items[k])
                    THEN [raised |-> FALSE,
                          items |-> [k \in 1..Len(v.items) |-> RecommendedMeasure(v.items[k].dict)]]
                    ELSE [raised |-> TRUE, items |-> <<>>]
               \* a string is iterated character by character, and a character has no .get
               [] v.type = "str" ->
                    IF v.str = "" THEN [raised |-> FALSE, items |-> <<>>]
                    ELSE [raised |-> TRUE, items |-> <<>>]
               \* None is not iterable
               [] OTHER -> [raised |-> TRUE, items |-> <<>>]

\* agent_out.get(key, []) for the two lists of AppraiserInfo
ListOf(agent_out, key) == IF key \in DOMAIN agent_out THEN agent_out[key].items ELSE <<>>

build_appraiser(agent_out) ==
    [what_to_do_next |-> ListOf(agent_out, "what_to_do_next"),
     evidence_checklist |-> ListOf(agent_out, "appraiser_evidence_checklist")]

NoAnalysisId == ""

\* step 8: the FullAnalysisResponse
assemble(run) ==
    [farm |-> [farm_name |-> run.req.farm_name],
     analysis_window |-> [start_date |-> run.req.start_date],
     summary |-> [annual_reduction_tco2e_low |-> RoundDiv(run.agg.total_low, 1000),
                  annual_reduction_tco2e_mid |-> RoundDiv(run.agg.total_mid, 1000),
                  annual_reduction_tco2e_high |-> RoundDiv(run.agg.total_high, 1000),
                  credit_score_0_100 |-> run.score_result.carbon_credit_score_0_100,
                  score_breakdown |-> run.score_result.components,
                  data_quality_score |-> RoundFrac(run.agg.avg_dq, 100),
                  area_ha |-> run.agg.total_area_ha,
                  buffer_pool_pct |-> 10,
                  platform_fee_pct |-> 10,
                  analysis_id |-> NoAnalysisId],
     credits_forecast |-> run.forecast_raw,
     earnings_forecast |-> run.earnings_raw,
     per_field |-> run.agg.per_field,
     recommendations |-> run.recommendations,
     appraiser |-> run.appraiser]

(***************************************************************************)
(* The runs.  A run is a record: its request and environment, its position *)
(* pc (the step to execute next), its local variables, and what became of  *)
(* it.  raised collects the steps that raised, failed_at is the step whose *)
(* exception left _run_pipeline_in_dir, error the type of the exception    *)
(* _ingest_request raised, written and read record the rows               *)
(* the run appended to and read from the CSV tables.                       *)
(***************************************************************************)
None == <<>>

NoRows == [farms |-> <<>>, fields |-> <<>>, seasons |-> <<>>, events |-> <<>>, estimates |-> <<>>]

\* what a run has read: fields, seasons and events by run_estimates, estimates
\* and agg_fields by step 3
NoRead == [fields |-> <<>>, seasons |-> <<>>, events |-> <<>>, estimates |-> <<>>, agg_fields |-> <<>>]

NoDir == [exists |-> FALSE, tables |-> NoRows]
EmptyDir == [exists |-> TRUE, tables |-> NoRows]

\* csv_path.parent.mkdir(parents=True, exist_ok=True)
OpenDir(d) == IF d.exists THEN d ELSE EmptyDir

\* read_rows: [] when the file does not exist
ReadTable(fs, dir, table) == fs[dir].tables[table]

\* append_row, for a list of rows
AppendRows(d, table, rows) ==
    [exists |-> TRUE, tables |-> [OpenDir(d).tables EXCEPT ![table] = @ \o rows]]

\* the rows with the run that writes them
Tag(rows, r) == [k \in 1..Len(rows) |-> ("writer" :> r) @@ rows[k]]

NewRun(req, env) ==
    [req |-> req, env |-> env, pc |-> "mkdtemp", dir |-> "",
     agg |-> None, score_result |-> None, forecast_raw |-> None, earnings_raw |-> None,
     agent_out |-> None, recommendations |-> None, appraiser |-> None, response |-> None,
     raised |-> {}, failed_at |-> "none", error |-> "none", outcome |-> "running", report |-> None,
     written |-> NoRows, read |-> NoRead, trace |-> <<>>]

\* the names tempfile.mkdtemp(prefix="terra30_") draws from
TempNames == {"terra30_a", "terra30_b", "terra30_c"}

\* one directory shared by every run
MkdtempNamesShared(fs) == {"terra30_a"}

\* mkdtemp creates a directory that did not exist
MkdtempNames(fs) == {name \in TempNames : ~fs[name].exists}

\* the run turns out a report unless an exception left _run_pipeline_in_dir
RunOutcomeSwallowed(failed_at) == "report"

RunOutcome(failed_at) == IF failed_at = "none" THEN "report" ELSE "failure"

\* the forecast of step 5 left out: earnings follow the score
AfterSkipping(stage) ==
    CASE stage = "ingest" -> "estimate"
      [] stage = "estimate" -> "read"
      [] stage = "read" -> "score"
      [] stage = "score" -> "earnings"
      [] stage = "forecast" -> "earnings"
      [] stage = "earnings" -> "recommend"
      [] stage = "recommend" -> "assemble"
      [] stage = "assemble" -> "persist"

\* the step that follows a stage of _run_pipeline_in_dir that did not raise
After(stage) ==
    CASE stage = "ingest" -> "estimate"
      [] stage = "estimate" -> "read"
      [] stage = "read" -> "score"
      [] stage = "score" -> "forecast"
      [] stage = "forecast" -> "earnings"
      [] stage = "earnings" -> "recommend"
      [] stage = "recommend" -> "assemble"
      [] stage = "assemble" -> "persist"

\* the step raises and nothing catches it before the finally clause
Raise(run, step) == [run EXCEPT !.raised = @ \cup {step}, !.failed_at = step, !.pc = "cleanup"]

\* the step is the one the environment makes fail (I/O error, validation error, ...)
Faulty(run, step) == run.env.fault = step

\* the run after a step; trace lists the steps the run has executed
SetRun(r, run) == pipe_runs' = [pipe_runs EXCEPT ![r] = [run EXCEPT !.trace = Append(@, pipe_runs[r].pc)]]

\* tmp_dir = tempfile.mkdtemp(prefix="terra30_"), before the try statement
Mkdtemp(r) ==
    LET run == pipe_runs[r]
    IN  /\ run.pc = "mkdtemp"
        /\ IF Faulty(run, "mkdtemp")
           THEN /\ SetRun(r, [run EXCEPT !.raised = @ \cup {"mkdtemp"}, !.failed_at = "mkdtemp",
                                         !.outcome = "failure", !.pc = "done"])
                /\ UNCHANGED pipe_fs
           ELSE \E name \in MkdtempNames(pipe_fs) :
                    /\ pipe_fs' = [pipe_fs EXCEPT ![name] = OpenDir(@)]
                    /\ SetRun(r, [run EXCEPT !.dir = name, !.pc = "ingest"])
        /\ UNCHANGED pipe_store
        /\ UNCHANGED pipeOthers

\* step 1: _ingest_request(data_dir, req); the rows appended before an
\* exception stay in the directory
Ingest(r) ==
    LET run == pipe_runs[r]
        out == ingest_request(r, run.req)
        farms == Tag(out.farms, r)
        fields == Tag(out.fields, r)
        seasons == Tag(out.seasons, r)
        events == Tag(out.events, r)
        d1 == AppendRows(pipe_fs[run.dir], "farms", farms)
        d2 == AppendRows(d1, "fields", fields)
        d3 == AppendRows(d2, "seasons", seasons)
        d4 == AppendRows(d3, "events", events)
        wrote == [run EXCEPT !.written = [@ EXCEPT !.farms = farms, !.fields = fields,
                                                   !.seasons = seasons, !.events = events]]
    IN  /\ run.pc = "ingest"
        /\ IF Faulty(run, "ingest")
           THEN /\ SetRun(r, Raise(run, "ingest"))
                /\ UNCHANGED pipe_fs
           ELSE /\ pipe_fs' = [pipe_fs EXCEPT ![run.dir] = d4]
                /\ SetRun(r, IF out.raised THEN Raise([wrote EXCEPT !.error = out.error], "ingest")
                             ELSE [wrote EXCEPT !.pc = After("ingest")])
        /\ UNCHANGED pipe_store
        /\ UNCHANGED pipeOthers

\* step 2: run_estimates(data_dir)
Estimate(r) ==
    LET run == pipe_runs[r]
        field_rows == ReadTable(pipe_fs, run.dir, "fields")
        season_rows == ReadTable(pipe_fs, run.dir, "seasons")
        event_rows == ReadTable(pipe_fs, run.dir, "events")
        out == run_estimates(field_rows, season_rows, event_rows)
        rows == Tag(out.rows, r)
        did == [run EXCEPT !.read = [@ EXCEPT !.fields = field_rows, !.seasons = season_rows,
                                               !.events = event_rows],
                           !.written = [@ EXCEPT !.estimates = rows]]
    IN  /\ run.pc = "estimate"
        /\ IF Faulty(run, "estimate")
           THEN /\ SetRun(r, Raise(run, "estimate"))
                /\ UNCHANGED pipe_fs
           ELSE /\ pipe_fs' = [pipe_fs EXCEPT ![run.dir] = AppendRows(@, "estimates", rows)]
                /\ SetRun(r, IF out.raised THEN Raise(did, "estimate")
                             ELSE [did EXCEPT !.pc = After("estimate")])
        /\ UNCHANGED pipe_store
        /\ UNCHANGED pipeOthers

\* step 3: read estimates.csv and fields.csv, total the rows
ReadResults(r) ==
    LET run == pipe_runs[r]
        est_rows == ReadTable(pipe_fs, run.dir, "estimates")
        field_rows == ReadTable(pipe_fs, run.dir, "fields")
    IN  /\ run.pc = "read"
        /\ SetRun(r, IF Faulty(run, "read") THEN Raise(run, "read")
                     ELSE [run EXCEPT !.agg = aggregate(est_rows, field_rows, run.req),
                                      !.read = [@ EXCEPT !.estimates = est_rows, !.agg_fields = field_rows],
                                      !.pc = After("read")])
        /\ UNCHANGED <<pipe_fs, pipe_store>>
        /\ UNCHANGED pipeOthers

\* step 4
Score(r) ==
    LET run == pipe_runs[r]
    IN  /\ run.pc = "score"
        /\ SetRun(r, IF Faulty(run, "score") THEN Raise(run, "score")
                     ELSE [run EXCEPT !.score_result = score_stage(run.agg), !.pc = After("score")])
        /\ UNCHANGED <<pipe_fs, pipe_store>>
        /\ UNCHANGED pipeOthers

\* step 5
Forecast(r) ==
    LET run == pipe_runs[r]
    IN  /\ run.pc = "forecast"
        /\ SetRun(r, IF Faulty(run, "forecast") THEN Raise(run, "forecast")
                     ELSE [run EXCEPT !.forecast_raw = forecast_stage(run.agg), !.pc = After("forecast")])
        /\ UNCHANGED <<pipe_fs, pipe_store>>
        /\ UNCHANGED pipeOthers

\* step 6
Earnings(r) ==
    LET run == pipe_runs[r]
    IN  /\ run.pc = "earnings"
        /\ SetRun(r, IF Faulty(run, "earnings") THEN Raise(run, "earnings")
                     ELSE [run EXCEPT !.earnings_raw = earnings_stage(run.forecast_raw),
                                      !.pc = After("earnings")])
        /\ UNCHANGED <<pipe_fs, pipe_store>>
        /\ UNCHANGED pipeOthers

\* an SDK call that never returns: generate_content is called without a
\* timeout and the service does not answer
NeverAnswers == [kind |-> "hangs"]

\* _try_call_gemini does not return: the first SDK call never returns, or it
\* fails (raises, or yields no object) and the second one never returns
CallBlocks(service) ==
    /\ service.api_key
    /\ \/ service.attempts[1] = NeverAnswers
       \/ /\ service.attempts[2] = NeverAnswers
          /\ SdkAttempt(service.attempts[1]).raised \/ ~Truthy(SdkAttempt(service.attempts[1]).parsed)

\* step 7: the call of get_recommendations inside try/except Exception, then
\* the recommendations and the appraiser built from agent_out outside of it;
\* the step does not happen while the call does not return
Recommend(r) ==
    LET run == pipe_runs[r]
        result == get_recommendations(agent_payload(run.agg, run.score_result), run.env.service)
        absorbed == Faulty(run, "recommend") \/ result.raised
        agent_out == IF absorbed THEN <<>> ELSE result.out
        called == [run EXCEPT !.agent_out = agent_out,
                              !.raised = IF absorbed THEN @ \cup {"recommend"} ELSE @]
        built == build_recommendations(agent_out)
    IN  /\ run.pc = "recommend"
        /\ Faulty(run, "recommend") \/ ~CallBlocks(run.env.service)
        /\ SetRun(r, IF built.raised THEN Raise(called, "build_recommendations")
                     ELSE [called EXCEPT !.recommendations = built.items,
                                         !.appraiser = build_appraiser(agent_out),
                                         !.pc = After("recommend")])
        /\ UNCHANGED <<pipe_fs, pipe_store>>
        /\ UNCHANGED pipeOthers

\* step 8
Assemble(r) ==
    LET run == pipe_runs[r]
    IN  /\ run.pc = "assemble"
        /\ SetRun(r, IF Faulty(run, "assemble") THEN Raise(run, "assemble")
                     ELSE [run EXCEPT !.response = assemble(run), !.pc = After("assemble")])
        /\ UNCHANGED <<pipe_fs, pipe_store>>
        /\ UNCHANGED pipeOthers

\* step 9: the MongoDB write inside try/except Exception: pass, then return response
Persist(r) ==
    LET run == pipe_runs[r]
        analysis_id == Uid("analysis_", r, 1)
    IN  /\ run.pc = "persist"
        /\ IF ~run.env.mongo_available
           THEN /\ SetRun(r, [run EXCEPT !.pc = "cleanup"])
                /\ UNCHANGED pipe_store
           ELSE IF Faulty(run, "persist")
           THEN /\ SetRun(r, [run EXCEPT !.raised = @ \cup {"persist"}, !.pc = "cleanup"])
                /\ UNCHANGED pipe_store
           ELSE /\ pipe_store' = Append(pipe_store, [analysis_id |-> analysis_id, result |-> run.response])
                /\ SetRun(r, [run EXCEPT !.response = [@ EXCEPT !.summary = [@ EXCEPT !.analysis_id = analysis_id]],
                                         !.pc = "cleanup"])
        /\ UNCHANGED pipe_fs
        /\ UNCHANGED pipeOthers

\* the removal placed after the call instead of in a finally clause: it is
\* reached only when _run_pipeline_in_dir returns
CleanupOnReturn(r) ==
    LET run == pipe_runs[r]
        outcome == RunOutcome(run.failed_at)
    IN  /\ run.pc = "cleanup"
        /\ IF Faulty(run, "cleanup") \/ outcome = "failure"
           THEN /\ UNCHANGED pipe_fs
                /\ SetRun(r, [run EXCEPT !.raised = @ \cup (IF Faulty(run, "cleanup")
                                                              THEN {"cleanup"} ELSE {}),
                                         !.outcome = outcome,
                                         !.report = IF outcome = "report" THEN run.response ELSE None,
                                         !.pc = "done"])
           ELSE /\ pipe_fs' = [pipe_fs EXCEPT ![run.dir] = NoDir]
                /\ SetRun(r, [run EXCEPT !.outcome = outcome,
                                         !.report = IF outcome = "report" THEN run.response ELSE None,
                                         !.pc = "done"])
        /\ UNCHANGED pipe_store
        /\ UNCHANGED pipeOthers

\* finally: shutil.rmtree(tmp_dir, ignore_errors=True); the report is returned
\* or the exception goes on to the caller
Cleanup(r) ==
    LET run == pipe_runs[r]
        outcome == RunOutcome(run.failed_at)
    IN  /\ run.pc = "cleanup"
        /\ IF Faulty(run, "cleanup")
           THEN /\ UNCHANGED pipe_fs
                /\ SetRun(r, [run EXCEPT !.raised = @ \cup {"cleanup"}, !.outcome = outcome,
                                         !.report = IF outcome = "report" THEN run.response ELSE None,
                                         !.pc = "done"])
           ELSE /\ pipe_fs' = [pipe_fs EXCEPT ![run.dir] = NoDir]
                /\ SetRun(r, [run EXCEPT !.outcome = outcome,
                                         !.report = IF outcome = "report" THEN run.response ELSE None,
                                         !.pc = "done"])
        /\ UNCHANGED pipe_store
        /\ UNCHANGED pipeOthers

NextPipe ==
    \/ \E r \in DOMAIN pipe_runs : Mkdtemp(r)
    \/ \E r \in DOMAIN pipe_runs : Ingest(r)
    \/ \E r \in DOMAIN pipe_runs : Estimate(r)
    \/ \E r \in DOMAIN pipe_runs : ReadResults(r)
    \/ \E r \in DOMAIN pipe_runs : Score(r)
    \/ \E r \in DOMAIN pipe_runs : Forecast(r)
    \/ \E r \in DOMAIN pipe_runs : Earnings(r)
    \/ \E r \in DOMAIN pipe_runs : Recommend(r)
    \/ \E r \in DOMAIN pipe_runs : Assemble(r)
    \/ \E r \in DOMAIN pipe_runs : Persist(r)
    \/ \E r \in DOMAIN pipe_runs : Cleanup(r)

(***************************************************************************)
(* Specification SpecPipe: one run of run_full_pipeline, for a request, a  *)
(* generative service and an environment in which at most one step fails.  *)
(***************************************************************************)
Practices(tillage, fertilizer, irrigation) ==
    [tillage_passes |-> tillage, fertilizer_amount |-> fertilizer, irrigation_events |-> irrigation]

FieldInput(name, crop, area_value, area_unit, lat, lon, baseline, project) ==
    [field_name |-> name, crop_type |-> crop, area_value |-> area_value, area_unit |-> area_unit,
     latitude |-> lat, longitude |-> lon, baseline |-> baseline, project |-> project]

North40 == FieldInput("North 40", "corn", 1000, "hectare", 41, -93, Practices(2, 120, 2), Practices(1, 100, 1))
Paddy == FieldInput("Paddy", "rice", 15000000, "sqm", 35, -91, Practices(1, 90, 3), Practices(1, 90, 3))
North40Again == FieldInput("North 40", "corn", 2000, "hectare", 42, -94, Practices(2, 0, 1), Practices(0, 0, 1))

\* one tillage pass less on 2.5 ha is 0.25 tCO2e, on 2.501 ha 0.2501 tCO2e
Quarter == FieldInput("Quarter", "corn", 2500, "hectare", 40, -95, Practices(1, 0, 0), Practices(0, 0, 0))
JustOver == FieldInput("Just over", "corn", 2501, "hectare", 40, -95, Practices(1, 0, 0), Practices(0, 0, 0))

\* a field whose area unit area_to_hectares does not know
Rood == FieldInput("Back lot", "corn", 4000, "rood", 40, -95, Practices(1, 0, 0), Practices(0, 0, 0))

PipeFieldLists ==
    {<<North40>>, <<Paddy>>, <<North40, Paddy>>, <<North40, North40Again>>, <<North40Again, North40>>,
     <<Quarter>>, <<JustOver>>, <<North40, Rood, Paddy>>}

\* analysis_window.start_date is a free string
PipeStartDates == {"2024-01-01", "spring 2024"}

PipeRequests ==
    {[farm_name |-> "Taneja Farms", fields |-> fields, start_date |-> start_date] :
        fields \in PipeFieldLists, start_date \in PipeStartDates}

PipeSteps ==
    {"mkdtemp", "ingest", "estimate", "read", "score", "forecast", "earnings", "recommend",
     "assemble", "persist", "cleanup"}

PipeServices ==
    {NotConfigured} \cup {[api_key |-> TRUE, attempts |-> <<a, Raises>>] : a \in SdkOutcomes}
        \cup {[api_key |-> TRUE, attempts |-> <<Raises, Answers("json_object", ObjMeasuresOnly)>>]}

Env(service, fault, mongo_available) ==
    [service |-> service, fault |-> fault, mongo_available |-> mongo_available]

PipeEnvs ==
    {Env(service, "none", mongo) : service \in PipeServices, mongo \in BOOLEAN}
        \cup {Env(NotConfigured, fault, TRUE) : fault \in PipeSteps}

NoDirs == [name \in TempNames |-> NoDir]

InitPipe ==
    /\ \E req \in PipeRequests, env \in PipeEnvs : pipe_runs = <<NewRun(req, env)>>
    /\ pipe_fs = NoDirs
    /\ pipe_store = <<>>
    /\ PipeOthersIdle

SpecPipe == InitPipe /\ [][NextPipe]_vars

(***************************************************************************)
(* Specification SpecConc: MaxRuns invocations of run_full_pipeline        *)
(* running concurrently in one process, their steps interleaved.           *)
(***************************************************************************)
MaxRuns == 2

ConcRequests ==
    {[farm_name |-> "Taneja Farms", fields |-> fields, start_date |-> "2024-01-01"] :
        fields \in {<<North40, Paddy>>}}

ConcEnvs == {Env(NotConfigured, "none", FALSE)}

InitConc ==
    /\ \E reqs \in [1..MaxRuns -> ConcRequests], envs \in [1..MaxRuns -> ConcEnvs] :
           pipe_runs = [r \in 1..MaxRuns |-> NewRun(reqs[r], envs[r])]
    /\ pipe_fs = NoDirs
    /\ pipe_store = <<>>
    /\ PipeOthersIdle

SpecConc == InitConc /\ [][NextPipe]_vars

\* the payload the run hands to get_recommendations, with the catalog in force
PayloadOf(run) == with_default_offer_catalog(agent_payload(run.agg, run.score_result))

\* the measures of the deterministic heuristic for the run, as the report carries them
HeuristicRecommendations(run) ==
    LET items == heuristic_recommendations(PayloadOf(run)).recommended_measures.items
    IN  [k \in 1..Len(items) |-> RecommendedMeasure(items[k].dict)]

\* a list of measure objects whose nested amounts are objects
WellFormedMeasureList(v) ==
    /\ v.type = "list"
    /\ \A k \in 1..Len(v.items) :
           /\ v.items[k].type = "dict"
           /\ \A key \in {"capital_required_usd"} \cap DOMAIN v.items[k].dict :
                  v.items[k].dict[key].type = "dict"

\* the configured service failed on every attempt, or the object it returned
\* has no recommended_measures or one that is not a list of well-formed measures
ServiceMisbehaved(run) ==
    LET answer == try_call_gemini(PayloadOf(run), run.env.service)
    IN  /\ run.env.service.api_key
        /\ \/ answer.out.type # "dict"
           \/ "recommended_measures" \notin DOMAIN answer.out.dict
           \/ ~WellFormedMeasureList(answer.out.dict["recommended_measures"])

(***************************************************************************)
(* C8: a run of run_full_pipeline never fails because of the               *)
(* recommendation stage: whenever the generative service raises or answers *)
(* with a malformed response (including an object whose                    *)
(* recommended_measures is not a list of well-formed measure objects), a   *)
(* run in which no other step fails returns a report, and the report       *)
(* carries the recommendations of the deterministic heuristic.             *)
(***************************************************************************)
C8_RecommendationNeverFailsRun ==
    \A r \in DOMAIN pipe_runs :
        LET run == pipe_runs[r]
        IN  (/\ run.pc = "done"
             /\ run.env.fault = "none"
             /\ run.raised \subseteq {"build_recommendations"}
             /\ ServiceMisbehaved(run))
                => /\ run.outcome = "report"
                   /\ run.report.recommendations = HeuristicRecommendations(run)

\* the steps the claim lists as reaching the caller
ListedSteps == {"ingest", "estimate", "read", "score", "forecast", "earnings", "assemble", "persist"}

\* the steps whose exception is caught inside _run_pipeline_in_dir
AbsorbedSteps == {"recommend", "persist"}

(***************************************************************************)
(* C9 (as stated): the recommendation call is the only step of a run whose *)
(* failure is absorbed: a failure raised by ingest, estimate, reading      *)
(* results, scoring, forecast, earnings, assembling or the final           *)
(* persistence write reaches the caller as a failure of the run.           *)
(***************************************************************************)
C9_AsStated ==
    \A r \in DOMAIN pipe_runs :
        LET run == pipe_runs[r]
        IN  (run.pc = "done" /\ run.raised \cap ListedSteps # {}) => run.outcome = "failure"

(***************************************************************************)
(* C9 (amended): the recommendation call and the final persistence write   *)
(* are the steps of a run whose failure is absorbed: a run in which only   *)
(* they fail returns a report, and a failure raised by ingest, estimate,   *)
(* reading results, scoring, forecast, earnings or assembling reaches the  *)
(* caller as a failure of the run.                                         *)
(***************************************************************************)
C9_OnlyCallAndPersistAbsorbed ==
    \A r \in DOMAIN pipe_runs :
        LET run == pipe_runs[r]
        IN  run.pc = "done" =>
                /\ run.raised \cap (ListedSteps \ AbsorbedSteps) # {} => run.outcome = "failure"
                /\ run.raised \subseteq AbsorbedSteps => run.outcome = "report"

\* a request whose start_date has no year: ingest raises by itself and the run fails
C9_Witness ==
    \E r \in DOMAIN pipe_runs :
        /\ pipe_runs[r].pc = "done"
        /\ pipe_runs[r].env.fault = "none"
        /\ pipe_runs[r].raised = {"ingest"}
        /\ pipe_runs[r].outcome = "failure"

\* run_estimates of the run has read its tables
EstimateHasRead(run) ==
    /\ run.failed_at = "none"
    /\ run.pc \in {"read", "score", "forecast", "earnings", "recommend", "assemble", "persist", "cleanup", "done"}

\* step 3 of the run has read its tables
AggregateHasRead(run) ==
    /\ run.failed_at = "none"
    /\ run.pc \in {"score", "forecast", "earnings", "recommend", "assemble", "persist", "cleanup", "done"}

ReadTables == {"fields", "seasons", "events", "estimates", "agg_fields"}

(***************************************************************************)
(* C10: for concurrently running invocations of run_full_pipeline, the     *)
(* field, season, event and estimate rows read by a run's Estimate and     *)
(* Aggregate stages are exactly the rows that run wrote earlier; no run    *)
(* reads a row written by another run.                                     *)
(***************************************************************************)
C10_RunsIsolated ==
    \A r \in DOMAIN pipe_runs :
        LET run == pipe_runs[r]
        IN  /\ \A t \in ReadTables : \A k \in 1..Len(run.read[t]) : run.read[t][k].writer = r
            /\ EstimateHasRead(run) =>
                   /\ run.read.fields = run.written.fields
                   /\ run.read.seasons = run.written.seasons
                   /\ run.read.events = run.written.events
            /\ AggregateHasRead(run) =>
                   /\ run.read.estimates = run.written.estimates
                   /\ run.read.agg_fields = run.written.fields

\* two runs with their workspaces side by side: one has totalled its two
\* estimate rows while the other has estimated and not yet read its results
C10_Witness ==
    \E r1, r2 \in DOMAIN pipe_runs :
        /\ r1 # r2
        /\ pipe_runs[r1].pc = "score"
        /\ pipe_runs[r2].pc = "read"
        /\ pipe_runs[r1].dir # pipe_runs[r2].dir
        /\ pipe_fs[pipe_runs[r1].dir].exists
        /\ pipe_fs[pipe_runs[r2].dir].exists
        /\ Len(pipe_runs[r1].read.estimates) = 2
        /\ Len(pipe_runs[r2].read.fields) = 2

\* the stages of a run, in the order of the specification; "read" is Aggregate
STAGE_ORDER == <<"ingest", "estimate", "read", "score", "forecast", "earnings", "recommend", "assemble">>

\* the stages among the steps a run has executed
StagesOf(trace) == SelectSeq(trace, LAMBDA s : \E k \in 1..Len(STAGE_ORDER) : STAGE_ORDER[k] = s)

IsPrefix(a, b) == Len(a) <= Len(b) /\ \A k \in 1..Len(a) : a[k] = b[k]

\* the run executed the stage and the stage did not raise
Finished(run, stage) ==
    /\ \E k \in 1..Len(run.trace) : run.trace[k] = stage
    /\ run.failed_at # stage
    /\ stage = "recommend" => run.failed_at # "build_recommendations"

\* what get_recommendations hands to step 7 of the run
AgentOutOf(run) ==
    IF "recommend" \in run.raised THEN <<>>
    ELSE get_recommendations(agent_payload(run.agg, run.score_result), run.env.service).out

\* every finished stage of the run holds the value its code computes from
\* the request and the outputs of the stages before it
StageValues(r, run) ==
    /\ Finished(run, "ingest") =>
           /\ run.written.fields = Tag(ingest_request(r, run.req).fields, r)
           /\ run.written.seasons = Tag(ingest_request(r, run.req).seasons, r)
           /\ run.written.events = Tag(ingest_request(r, run.req).events, r)
    /\ Finished(run, "estimate") =>
           run.written.estimates =
               Tag(run_estimates(run.written.fields, run.written.seasons, run.written.events).rows, r)
    /\ Finished(run, "read") => run.agg = aggregate(run.written.estimates, run.written.fields, run.req)
    /\ Finished(run, "score") => run.score_result = score_stage(run.agg)
    /\ Finished(run, "forecast") => run.forecast_raw = forecast_stage(run.agg)
    /\ Finished(run, "earnings") => run.earnings_raw = earnings_stage(run.forecast_raw)
    /\ Finished(run, "recommend") =>
           /\ run.agent_out = AgentOutOf(run)
           /\ run.recommendations = build_recommendations(run.agent_out).items
           /\ run.appraiser = build_appraiser(run.agent_out)
    /\ Finished(run, "assemble") =>
           run.response = [assemble(run) EXCEPT !.summary = [@ EXCEPT !.analysis_id = run.response.summary.analysis_id]]

(***************************************************************************)
(* C11: in every run the stages execute once each in the order Ingest,     *)
(* Estimate, Aggregate, Score, Forecast, Earnings, Recommend, Assemble,    *)
(* each after the previous one has finished (a run that returns a report   *)
(* has executed all eight), and the value a stage computed is the value    *)
(* its code yields for the request and the outputs of earlier stages; it   *)
(* is not changed by a later stage.                                        *)
(***************************************************************************)
C11_StagesInOrder ==
    \A r \in DOMAIN pipe_runs :
        LET run == pipe_runs[r]
        IN  /\ IsPrefix(StagesOf(run.trace), STAGE_ORDER)
            /\ \A k \in 2..Len(StagesOf(run.trace)) : Finished(run, STAGE_ORDER[k - 1])
            /\ run.outcome = "report" => StagesOf(run.trace) = STAGE_ORDER
            /\ StageValues(r, run)

\* a run that used the measures of the generative service and was persisted
C11_Witness ==
    \E r \in DOMAIN pipe_runs :
        /\ pipe_runs[r].outcome = "report"
        /\ pipe_runs[r].env.service.api_key
        /\ pipe_runs[r].env.service.attempts[1] = Answers("json_object", ObjMeasuresOnly)
        /\ pipe_runs[r].report.summary.analysis_id # NoAnalysisId
        /\ StagesOf(pipe_runs[r].trace) = STAGE_ORDER
        /\ Len(pipe_runs[r].report.recommendations) = 1
        /\ Len(pipe_runs[r].report.per_field) = 2

(***************************************************************************)
(* Specification SpecDir: run_estimates on a data directory with two       *)
(* fields, A (corn) and B (rice).  Field A's rows are complete; field B's  *)
(* rows may lack a key, a season of B may be missing, B may be absent from *)
(* fields.csv, and its seasons may be without events.                      *)
(***************************************************************************)
\* fields.csv: B listed, listed with a blank field_id, or not listed; and
\* possibly a further row without field_id
DirFields(field_b, blank_row) ==
    <<FieldRow("fA", "Field A", NumCell(1000))>>
    \o (CASE field_b = "listed" -> <<FieldRow("fB", "Field B", NumCell(2000))>>
          [] field_b = "no_field_id" -> <<FieldRow("   ", "Field B", NumCell(2000))>>
          [] OTHER -> <<>>)
    \o (IF blank_row THEN <<FieldRow("", "Field C", NumCell(500))>> ELSE <<>>)

SeasonsA == <<SeasonRow("sA1", "fA", "2024", "baseline", "corn"), SeasonRow("sA2", "fA", "2024", "project", "corn")>>

\* the season rows of field B
SeasonsB(seasons_b) ==
    CASE seasons_b = "both" ->
            <<SeasonRow("sB1", "fB", "2024", "baseline", "rice"), SeasonRow("sB2", "fB", "2024", "project", "rice")>>
      [] seasons_b = "baseline_only" -> <<SeasonRow("sB1", "fB", "2024", "baseline", "rice")>>
      [] seasons_b = "project_only" -> <<SeasonRow("sB2", "fB", "2024", "project", "rice")>>
      [] seasons_b = "baseline_no_season_id" ->
            <<SeasonRow("", "fB", "2024", "baseline", "rice"), SeasonRow("sB2", "fB", "2024", "project", "rice")>>
      [] seasons_b = "project_no_season_id" ->
            <<SeasonRow("sB1", "fB", "2024", "baseline", "rice"), SeasonRow(" ", "fB", "2024", "project", "rice")>>
      [] seasons_b = "baseline_no_field_id" ->
            <<SeasonRow("sB1", "", "2024", "baseline", "rice"), SeasonRow("sB2", "fB", "2024", "project", "rice")>>

SeasonsBKinds ==
    {"both", "baseline_only", "project_only", "baseline_no_season_id", "project_no_season_id",
     "baseline_no_field_id"}

EventsA ==
    EventsFor("sA1", [t |-> 2, f |-> <<Amount(120)>>, i |-> 2, o |-> <<>>])
    \o EventsFor("sA2", [t |-> 1, f |-> <<Amount(100)>>, i |-> 1, o |-> <<>>])

\* the events of field B: none, only rows the estimator does not count, or a
\* reduction of fertilizer
EventsB(events_b) ==
    CASE events_b = "none" -> <<>>
      [] events_b = "not_counted" ->
            <<EventRow("sB1", "harvest", EmptyAmount), EventRow("sB2", "fertilizer", TextAmount)>>
      [] OTHER -> <<EventRow("sB1", "fertilizer", Amount(90)), EventRow("sB2", "fertilizer", Amount(60))>>

EventsBKinds == {"none", "not_counted", "less_fertilizer"}

\* an event row without season_id
StrayEvent == EventRow("", "tillage", EmptyAmount)

InitDir ==
    \E field_b \in {"listed", "no_field_id", "absent"}, blank_row \in BOOLEAN,
       seasons_b \in SeasonsBKinds, a_first \in BOOLEAN, events_b \in EventsBKinds,
       stray \in BOOLEAN :
        /\ est_fields = DirFields(field_b, blank_row)
        /\ est_seasons = IF a_first THEN SeasonsA \o SeasonsB(seasons_b)
                         ELSE SeasonsB(seasons_b) \o SeasonsA
        /\ est_events = (IF stray THEN <<StrayEvent>> ELSE <<>>) \o EventsA \o EventsB(events_b)
        /\ est_estimates = <<>>
        /\ est_runs = 0
        /\ est_raised = FALSE
        /\ EstOthersIdle

SpecDir == InitDir /\ [][NextEst]_vars

\* a row carries its identifying key
HasKey(row, key) == Pick(row, key) # ""

\* the (field, year, crop) groups of the season rows that carry a field id
DirGroups == {SeasonKey(est_seasons[i]) : i \in {j \in 1..Len(est_seasons) : SeasonGrouped(est_seasons[j])}}

HasScenario(key, scenario) == ScenarioRows(est_seasons, key, scenario) # {}

\* a group with a baseline and a project season
Paired(key) == HasScenario(key, "baseline") /\ HasScenario(key, "project")

\* the season rows of the group carry their season ids
SeasonIdsPresent(key) ==
    \A i \in ScenarioRows(est_seasons, key, "baseline") \cup ScenarioRows(est_seasons, key, "project") :
        HasKey(est_seasons[i], "season_id")

\* the field of the group is listed in fields.csv
FieldListed(key) == key.field_id \in FieldIds(est_fields)

\* the estimate rows written for a group; every run appends its rows to
\* estimates.csv, so a group estimated once per run has est_runs rows
EstimatesOf(key) ==
    {k \in 1..Len(est_estimates) :
        /\ est_estimates[k].field_id = key.field_id
        /\ est_estimates[k].year = YearToInt(key.year)
        /\ est_estimates[k].crop_type = Lower(Clean(key.crop_type))}

\* some row of the directory lacks its identifying key
SomeRowLacksKey ==
    \/ \E i \in 1..Len(est_fields) : ~HasKey(est_fields[i], "field_id")
    \/ \E i \in 1..Len(est_seasons) : ~HasKey(est_seasons[i], "field_id") \/ ~HasKey(est_seasons[i], "season_id")
    \/ \E i \in 1..Len(est_events) : ~HasKey(est_events[i], "season_id")

(***************************************************************************)
(* C12: in run_estimates an input row (field, season or event) that lacks  *)
(* its identifying key is skipped: no failure is raised and the estimate   *)
(* of every well-formed field/season pair (both seasons with their keys,   *)
(* field listed) is still written.                                         *)
(***************************************************************************)
C12_KeylessRowsSkipped ==
    (est_runs > 0 /\ SomeRowLacksKey) =>
        /\ ~est_raised
        /\ \A key \in DirGroups :
               (Paired(key) /\ SeasonIdsPresent(key) /\ FieldListed(key))
                   => Cardinality(EstimatesOf(key)) = 1

\* every season row carries its field id and its season id
AllSeasonsKeyed ==
    \A i \in 1..Len(est_seasons) : HasKey(est_seasons[i], "field_id") /\ HasKey(est_seasons[i], "season_id")

(***************************************************************************)
(* C13 (as stated): among season rows that carry their keys, a (field,     *)
(* year, crop) group with only a baseline or only a project season         *)
(* produces no estimate row and raises no failure, and every other group,  *)
(* having both seasons, gets exactly one estimate row.                     *)
(***************************************************************************)
C13_AsStated ==
    (est_runs > 0 /\ AllSeasonsKeyed) =>
        /\ ~est_raised
        /\ \A key \in DirGroups :
               /\ ~Paired(key) => EstimatesOf(key) = {}
               /\ Paired(key) => Cardinality(EstimatesOf(key)) = est_runs

(***************************************************************************)
(* C13 (amended): among season rows that carry their keys, a group with    *)
(* only a baseline or only a project season produces no estimate row and   *)
(* raises no failure, and every other group, having both seasons, gets     *)
(* exactly one estimate row when its field is listed in fields.csv and     *)
(* none when it is not.                                                    *)
(***************************************************************************)
C13_UnpairedSkipped ==
    (est_runs > 0 /\ AllSeasonsKeyed) =>
        /\ ~est_raised
        /\ \A key \in DirGroups :
               /\ ~Paired(key) => EstimatesOf(key) = {}
               /\ (Paired(key) /\ FieldListed(key)) => Cardinality(EstimatesOf(key)) = est_runs
               /\ (Paired(key) /\ ~FieldListed(key)) => EstimatesOf(key) = {}

\* field B, listed and first in the table, has only a baseline season; the
\* one estimate row written is field A's
C13_Witness ==
    /\ est_runs > 0
    /\ AllSeasonsKeyed
    /\ est_seasons[1] = SeasonRow("sB1", "fB", "2024", "baseline", "rice")
    /\ \E key \in DirGroups : key.field_id = "fB" /\ ~Paired(key) /\ FieldListed(key)
    /\ ~est_raised
    /\ Len(est_estimates) = 1
    /\ est_estimates[1].field_id = "fA"

\* an event the estimator counts: a tillage or irrigation event, or a
\* fertilizer event with a numeric amount
ValidEvent(e) ==
    \/ EventType(e) \in {"tillage", "irrigation"}
    \/ EventType(e) = "fertilizer" /\ e.amount.kind = "num"

\* the events recorded for the seasons of a group
GroupEvents(key) ==
    LET sids == {Pick(est_seasons[i], "season_id") :
                    i \in ScenarioRows(est_seasons, key, "baseline") \cup ScenarioRows(est_seasons, key, "project")}
    IN  SelectSeq(est_events, LAMBDA e : HasKey(e, "season_id") /\ Pick(e, "season_id") \in sids)

NoValidEvents(key) == \A k \in 1..Len(GroupEvents(key)) : ~ValidEvent(GroupEvents(key)[k])

(***************************************************************************)
(* C14: a listed field whose baseline and project seasons both have no     *)
(* valid events still gets one estimate row from run_estimates, with       *)
(* estimated_tco2e = low_tco2e = high_tco2e = 0, and no failure is raised. *)
(***************************************************************************)
C14_NoEventsZeroRow ==
    est_runs > 0 =>
        \A key \in DirGroups :
            (Paired(key) /\ SeasonIdsPresent(key) /\ FieldListed(key) /\ NoValidEvents(key)) =>
                /\ ~est_raised
                /\ Cardinality(EstimatesOf(key)) = est_runs
                /\ \A k \in EstimatesOf(key) :
                       /\ est_estimates[k].estimated_tco2e = 0
                       /\ est_estimates[k].low_tco2e = 0
                       /\ est_estimates[k].high_tco2e = 0

\* field B without any event row, after field A: B's row is the second one, all zero
C14_Witness ==
    /\ est_runs > 0
    /\ ~est_raised
    /\ Len(est_estimates) = 2
    /\ est_estimates[2].field_id = "fB"
    /\ \A k \in 1..Len(est_events) : Pick(est_events[k], "season_id") \notin {"sB1", "sB2"}
    /\ est_estimates[2].estimated_tco2e = 0
    /\ est_estimates[2].high_tco2e = 0
    /\ est_estimates[2].data_quality_score = 0
    /\ est_estimates[1].estimated_tco2e > 0

\* the tags of the estimate for the inputs of the directory of SpecEst
EstTags == SeqToSet(EstDirect.assumptions)

EstTillageReduced == count_type(EstProjEvents, "tillage") < count_type(EstBaseEvents, "tillage")
EstFertilizerReduced ==
    sum_amount_for_type(EstProjEvents, "fertilizer") < sum_amount_for_type(EstBaseEvents, "fertilizer")
EstIrrigationReduced == count_type(EstProjEvents, "irrigation") < count_type(EstBaseEvents, "irrigation")

(***************************************************************************)
(* C15: the assumption tags returned by estimate_season_delta_tco2e        *)
(* contain reduced_tillage_proxy, fertilizer_reduction_proxy and           *)
(* irrigation_energy_proxy exactly for the components whose reduction      *)
(* fired, contain rice_methane_not_modeled_yet whenever the crop is rice,  *)
(* and contain no_detected_changes whenever none of the three components   *)
(* fired, for every crop type.                                             *)
(***************************************************************************)
C15_TagsAsSpecified ==
    est_seasons # <<>> =>
        /\ "reduced_tillage_proxy" \in EstTags <=> EstTillageReduced
        /\ "fertilizer_reduction_proxy" \in EstTags <=> EstFertilizerReduced
        /\ "irrigation_energy_proxy" \in EstTags <=> EstIrrigationReduced
        /\ EstCrop = "rice" => "rice_methane_not_modeled_yet" \in EstTags
        /\ (~EstTillageReduced /\ ~EstFertilizerReduced /\ ~EstIrrigationReduced)
               => "no_detected_changes" \in EstTags

\* the sum of the mid reductions of the estimate rows of the run, in micro-tCO2e
SumOfMids(run) == SeqSum([k \in 1..Len(run.written.estimates) |-> run.written.estimates[k].estimated_tco2e])

(***************************************************************************)
(* C16: the additionality flag the orchestrator passes to the scorer is    *)
(* true exactly when the sum of the per-field mid reductions of the run is *)
(* > 0.25 tCO2e and the verification-ready flag is always true: in every   *)
(* run that scored, and in every report, the additionality component is 20 *)
(* when the aggregate mid is > 0.25 and 6 otherwise, and                   *)
(* verification_readiness is 20.                                           *)
(***************************************************************************)
C16_AdditionalityPolicy ==
    \A r \in DOMAIN pipe_runs :
        LET run == pipe_runs[r]
        IN  /\ Finished(run, "score") =>
                /\ run.score_result.components.additionality = (IF SumOfMids(run) > 250000 THEN 2000 ELSE 600)
                /\ run.score_result.components.verification_readiness = 2000
            /\ run.outcome = "report" =>
                /\ run.report.summary.score_breakdown.additionality = (IF SumOfMids(run) > 250000 THEN 2000 ELSE 600)
                /\ run.report.summary.score_breakdown.verification_readiness = 2000

\* a report for an aggregate mid of exactly 0.25 tCO2e: additionality is 6
C16_Witness ==
    \E r \in DOMAIN pipe_runs :
        /\ pipe_runs[r].outcome = "report"
        /\ SumOfMids(pipe_runs[r]) = 250000
        /\ pipe_runs[r].report.summary.score_breakdown.additionality = 600
        /\ pipe_runs[r].report.summary.score_breakdown.verification_readiness = 2000

BandKeys == {"low", "mid", "high"}

\* v (milli-tCO2e) is annual * (months / 12) * (1 - buffer) rounded to three
\* decimals; annual in milli-tCO2e, buffer in percent
IsScaled(v, annual, months, buffer) ==
    LET exact1200 == annual * months * (100 - buffer)
    IN  1200 * v - exact1200 <= 600 /\ exact1200 - 1200 * v <= 600

\* the forecast for the same band and horizons with another buffer
ForecastWithBuffer(buffer) ==
    generate_credit_forecast(Frac(fc_in.annual.low, 1000), Frac(fc_in.annual.mid, 1000),
                             Frac(fc_in.annual.high, 1000), fc_in.horizons_months, buffer)

(***************************************************************************)
(* C17 (as stated): for every annual band, horizon m and buffer_pool_pct   *)
(* b, each band value of the forecast entry for m is annual_band * (m /    *)
(* 12) * (1 - b), rounded to three decimals, and for a non-negative annual *)
(* value it does not increase when b increases with the other inputs       *)
(* fixed.                                                                  *)
(***************************************************************************)
C17_AsStated ==
    fc_called =>
        \A k \in 1..Len(fc_forecast) : \A key \in BandKeys :
            /\ fc_forecast[k].months = fc_in.horizons_months[k]
            /\ IsScaled(fc_forecast[k].credits_tco2e[key], fc_in.annual[key],
                        fc_in.horizons_months[k], fc_in.buffer_pool_pct)
            /\ fc_in.annual[key] >= 0 =>
                   \A b \in BufferPcts :
                       b >= fc_in.buffer_pool_pct =>
                           ForecastWithBuffer(b)[k].credits_tco2e[key] <= fc_forecast[k].credits_tco2e[key]

(***************************************************************************)
(* C17 (amended): for every annual band, horizon m and buffer_pool_pct b,  *)
(* each band value of the forecast entry for m is annual_band * (m / 12)   *)
(* * (1 - b), rounded to three decimals, and for a non-negative annual     *)
(* value and a horizon of at least 0 months it does not increase when b    *)
(* increases with the other inputs fixed.                                  *)
(***************************************************************************)
C17_ForecastLinear ==
    fc_called =>
        \A k \in 1..Len(fc_forecast) : \A key \in BandKeys :
            /\ fc_forecast[k].months = fc_in.horizons_months[k]
            /\ IsScaled(fc_forecast[k].credits_tco2e[key], fc_in.annual[key],
                        fc_in.horizons_months[k], fc_in.buffer_pool_pct)
            /\ (fc_in.annual[key] >= 0 /\ fc_in.horizons_months[k] >= 0) =>
                   \A b \in BufferPcts :
                       b >= fc_in.buffer_pool_pct =>
                           ForecastWithBuffer(b)[k].credits_tco2e[key] <= fc_forecast[k].credits_tco2e[key]

\* a 10 t band over the contract's horizons with a 10 % buffer: 4.5, 9, 18 and
\* 27 t, each above what a 100 % buffer leaves
C17_Witness ==
    /\ fc_called
    /\ fc_in.annual = Band(10000, 10000, 10000)
    /\ fc_in.buffer_pool_pct = 10
    /\ fc_in.horizons_months = <<6, 12, 24, 36>>
    /\ [k \in 1..4 |-> fc_forecast[k].credits_tco2e.mid] = <<4500, 9000, 18000, 27000>>
    /\ \A k \in 1..4 : ForecastWithBuffer(100)[k].credits_tco2e.mid < fc_forecast[k].credits_tco2e.mid

\* the call was answered by the heuristic: no SDK attempt yielded an object
\* with recommended_measures
HeuristicAnswered ==
    /\ rec_called
    /\ ~rec_result.raised
    /\ \A o \in AttemptsMade : FailedNoObject(o)

ReturnedMeasures == [i \in 1..Len(rec_result.out.recommended_measures.items) |-> rec_result.out.recommended_measures.items[i].dict]

\* the candidates the heuristic proposes before the CAPEX filter
CandidateList == CandidateMeasures(with_default_offer_catalog(rec_payload))

Candidates == {CandidateList[i] : i \in 1..Len(CandidateList)}

ReturnedAs(c) == {i \in 1..Len(ReturnedMeasures) : ReturnedMeasures[i].title = c.title}

HasCapexNote(m) == "notes" \in DOMAIN m /\ m.notes # <<>>

(***************************************************************************)
(* C18: in the heuristic measure proposal, for every value of              *)
(* constraints.max_upfront_cost_usd, a candidate measure is absent from    *)
(* the result exactly when its capex low end exceeds the limit; a measure  *)
(* whose capex high end exceeds the limit while its low end does not is    *)
(* kept and carries a note about the limit; a measure whose high end is    *)
(* within the limit carries no such note.                                  *)
(***************************************************************************)
C18_CapexFilter ==
    HeuristicAnswered =>
        LET limit == MaxCapex(rec_payload)
        IN  \A c \in Candidates :
                LET low == c.capital_required_usd.dict.low
                    high == c.capital_required_usd.dict.high
                IN  /\ (ReturnedAs(c) = {}) <=> (low > limit)
                    /\ (low <= limit /\ high > limit) =>
                           \A i \in ReturnedAs(c) :
                               /\ HasCapexNote(ReturnedMeasures[i])
                               /\ ReturnedMeasures[i].notes[1].value = limit
                    /\ high <= limit =>
                           \A i \in ReturnedAs(c) : ~HasCapexNote(ReturnedMeasures[i])

\* with a limit of 1500 USD and a rice field the first measure (high end 1500)
\* and the tillage measure under no_new_equipment (high end 500) are kept
\* without a note, the other two carry the note
C18_Witness ==
    /\ HeuristicAnswered
    /\ rec_payload.constraints.max_upfront_cost_usd = NumCell(1500)
    /\ rec_payload.constraints.no_new_equipment
    /\ Len(ReturnedMeasures) = 4
    /\ Cardinality({i \in 1..4 : HasCapexNote(ReturnedMeasures[i])}) = 2

\* a negative limit: every candidate's low end (0) exceeds it, nothing is returned
C18_WitnessAllDropped ==
    /\ HeuristicAnswered
    /\ rec_payload.constraints.max_upfront_cost_usd = NumCell(-1)
    /\ ReturnedMeasures = <<>>

\* low before medium before high
TierRank(m) == CASE m.risk_level = "low" -> 0 [] m.risk_level = "medium" -> 1 [] m.risk_level = "high" -> 2

UpliftHigh(m) == m.expected_credit_uplift_tco2e_per_year.high

(***************************************************************************)
(* C19: the recommended_measures list returned by the heuristic has at     *)
(* most 6 entries and is sorted by risk tier ascending (low before medium  *)
(* before high); among measures of the same risk tier, a measure with a    *)
(* larger upper-bound expected uplift comes before one with a smaller      *)
(* upper bound.                                                            *)
(***************************************************************************)
C19_MeasuresSorted ==
    HeuristicAnswered =>
        /\ Len(ReturnedMeasures) <= 6
        /\ \A i, j \in 1..Len(ReturnedMeasures) :
               i < j =>
                   /\ TierRank(ReturnedMeasures[i]) <= TierRank(ReturnedMeasures[j])
                   /\ TierRank(ReturnedMeasures[i]) = TierRank(ReturnedMeasures[j])
                          => UpliftHigh(ReturnedMeasures[i]) >= UpliftHigh(ReturnedMeasures[j])

\* with a rice field the AWD measure (medium, up to 3.0), appended last, is
\* returned before the tillage measure (medium, up to 1.2) and after the two
\* low-risk measures
C19_Witness ==
    /\ HeuristicAnswered
    /\ Len(ReturnedMeasures) = 4
    /\ [i \in 1..4 |-> ReturnedMeasures[i].risk_level] = <<"low", "low", "medium", "medium">>
    /\ [i \in 1..4 |-> UpliftHigh(ReturnedMeasures[i])] = <<15, 8, 30, 12>>
    /\ CandidateList[4].title = ReturnedMeasures[3].title

ReturnedOffers == rec_result.out.offers.dict.ranked_offers.items

\* the offers built from the entries of the catalog in force, before ranking
BuiltOffers ==
    LET p == with_default_offer_catalog(rec_payload)
        score == AsFloat(p.summary.carbon_credit_score_0_100, 0)
        annual_mid == AsFloat(p.summary.annual_reduction_tco2e.mid, 0)
        has_rice == "rice" \in PayloadCrops(p)
    IN  Flatten([i \in 1..Len(p.offer_catalog) |-> RankedOffer(p.offer_catalog[i], score, annual_mid, has_rice)])

\* the built offers that are not returned
LeftOut(built, returned) == {k \in 1..Len(built) : \A i \in 1..Len(returned) : returned[i] # built[k]}

(***************************************************************************)
(* C20: for every catalog, _heuristic_rank_offers returns at most 6        *)
(* offers, each with match_score_0_100 in [0, 100] and a non-empty         *)
(* why_ranked list, ordered by non-increasing match score; an offer left   *)
(* out of the result never has a higher score than one that is returned.   *)
(***************************************************************************)
C20_OffersRanked ==
    HeuristicAnswered =>
        LET built == BuiltOffers
            returned == ReturnedOffers
            n == Len(returned)
        IN  /\ n <= 6
            /\ \A i \in 1..n :
                   /\ returned[i].match_score_0_100 \in 0..100
                   /\ returned[i].why_ranked # <<>>
                   /\ \E k \in 1..Len(built) : built[k] = returned[i]
            /\ \A i, j \in 1..n :
                   i < j => returned[i].match_score_0_100 >= returned[j].match_score_0_100
            /\ \A k \in LeftOut(built, returned) : \A i \in 1..n :
                   built[k].match_score_0_100 <= returned[i].match_score_0_100

\* the default catalog with a rice field, 6 t/yr and a score of 72: the two
\* carbon programs (85) and the four lenders (75) are returned in that order,
\* nine offers with lower scores are left out
C20_Witness ==
    /\ HeuristicAnswered
    /\ rec_payload.offer_catalog = <<>>
    /\ [i \in 1..Len(ReturnedOffers) |-> ReturnedOffers[i].match_score_0_100] = <<85, 85, 75, 75, 75, 75>>
    /\ LET built == BuiltOffers
           left == LeftOut(built, ReturnedOffers)
       IN  /\ Len(built) = 15
           /\ Cardinality(left) = 9
           /\ \E k \in left : built[k].match_score_0_100 = 65

\* the payload of the call with another annual mid reduction and credit score
PayloadWith(mid, score) == [with_default_offer_catalog(rec_payload) EXCEPT !.summary = [annual_reduction_tco2e |-> [mid |-> NumCell(mid)], carbon_credit_score_0_100 |-> NumCell(score)]]

\* the match score heuristic_rank_offers gives the catalog entry named as the
\* returned offer r, for another annual mid reduction and credit score
ScoreWith(r, mid, score) ==
    LET q == PayloadWith(mid, score)
        offers == Flatten([i \in 1..Len(q.offer_catalog) |-> RankedOffer(q.offer_catalog[i], score, mid, "rice" \in PayloadCrops(q))])
    IN  offers[CHOOSE k \in 1..Len(offers) : offers[k].provider_name = r.provider_name].match_score_0_100

RecMid == rec_payload.summary.annual_reduction_tco2e.mid.v
RecScore == rec_payload.summary.carbon_credit_score_0_100.v
NotMaterialMids == {0, 1000000, 4999999}
LowScores == {0, 4500, 5999}
LenderCategories == {"bank_lender", "lender", "credit_union"}

(***************************************************************************)
(* C21: in _heuristic_rank_offers, with all other inputs fixed, a catalog  *)
(* entry of category carbon_program_marketplace or public_program gets a   *)
(* strictly higher match score when the aggregate annual mid reduction is  *)
(* material (>= 5 tCO2e) than when it is not; a lender entry gets a        *)
(* strictly higher match score when the credit score is high (>= 60) than  *)
(* when it is low.                                                         *)
(***************************************************************************)
C21_MaterialityRaisesScore ==
    HeuristicAnswered =>
        \A i \in 1..Len(ReturnedOffers) :
            LET r == ReturnedOffers[i]
            IN  /\ (r.provider_category \in {"carbon_program_marketplace", "public_program"} /\ RecMid >= 5000000) =>
                       \A mid \in NotMaterialMids : r.match_score_0_100 > ScoreWith(r, mid, RecScore)
                /\ (r.provider_category \in LenderCategories /\ RecScore >= 6000) =>
                       \A score \in LowScores : r.match_score_0_100 > ScoreWith(r, RecMid, score)

\* the part of C21 the code implements: marketplaces by materiality, lenders by score
C21_MarketplacesAndLenders ==
    HeuristicAnswered =>
        \A i \in 1..Len(ReturnedOffers) :
            LET r == ReturnedOffers[i]
            IN  /\ (r.provider_category = "carbon_program_marketplace" /\ RecMid >= 5000000) =>
                       \A mid \in NotMaterialMids : r.match_score_0_100 > ScoreWith(r, mid, RecScore)
                /\ (r.provider_category \in LenderCategories /\ RecScore >= 6000) =>
                       \A score \in LowScores : r.match_score_0_100 > ScoreWith(r, RecMid, score)
                /\ (r.provider_category = "public_program") =>
                       \A mid \in NotMaterialMids : r.match_score_0_100 = ScoreWith(r, mid, RecScore)

(***************************************************************************)
(* Specification SpecTwice: run_full_pipeline invoked twice on the same    *)
(* request in the same environment, the recommendation stage on its        *)
(* heuristic path; the steps of the two invocations interleave.            *)
(***************************************************************************)
TwiceRequests ==
    {[farm_name |-> "Taneja Farms", fields |-> fields, start_date |-> "2024-01-01"] :
        fields \in {<<North40, Paddy>>, <<North40, North40Again>>}}

\* no API key, or both SDKs raising
HeuristicPathServices == {NotConfigured, [api_key |-> TRUE, attempts |-> <<Raises, Raises>>]}

InitTwice ==
    /\ \E req \in TwiceRequests, service \in HeuristicPathServices, mongo \in BOOLEAN :
           pipe_runs = <<NewRun(req, Env(service, "none", mongo)), NewRun(req, Env(service, "none", mongo))>>
    /\ pipe_fs = NoDirs
    /\ pipe_store = <<>>
    /\ PipeOthersIdle

SpecTwice == InitTwice /\ [][NextPipe]_vars

\* both invocations have returned a report
BothReported == \A r \in DOMAIN pipe_runs : pipe_runs[r].pc = "done" /\ pipe_runs[r].outcome = "report"

\* the report without the analysis_id the persistence write adds to its summary
WithoutAnalysisId(report) == [report EXCEPT !.summary = [@ EXCEPT !.analysis_id = NoAnalysisId]]

(***************************************************************************)
(* C22 (as stated): two invocations of run_full_pipeline on the same       *)
(* request, with the recommendation stage on its heuristic path, return    *)
(* reports that are equal in every part: summary, per-field breakdown,     *)
(* credits forecast, earnings forecast, recommendations and appraiser      *)
(* info.                                                                   *)
(***************************************************************************)
C22_AsStated ==
    BothReported => pipe_runs[1].report = pipe_runs[2].report

(***************************************************************************)
(* C22 (amended): two invocations of run_full_pipeline on the same         *)
(* request, with the recommendation stage on its heuristic path, return    *)
(* reports that are equal in every part except the analysis_id that a      *)
(* successful persistence write adds to the summary; without a persistence *)
(* write the reports are equal in every part.                              *)
(***************************************************************************)
C22_ReportsEqualUpToAnalysisId ==
    BothReported =>
        /\ WithoutAnalysisId(pipe_runs[1].report) = WithoutAnalysisId(pipe_runs[2].report)
        /\ (\A r \in DOMAIN pipe_runs : ~pipe_runs[r].env.mongo_available)
               => pipe_runs[1].report = pipe_runs[2].report

\* both invocations persisted their report: the workspaces and the analysis
\* ids differ, every other part of the two reports is the same
C22_Witness ==
    /\ BothReported
    /\ Len(pipe_store) = 2
    /\ pipe_runs[1].dir # pipe_runs[2].dir
    /\ Len(pipe_runs[1].report.per_field) = 2
    /\ pipe_runs[1].report.summary.annual_reduction_tco2e_mid > 0
    /\ pipe_runs[1].report.recommendations # <<>>
    /\ pipe_runs[1].report.summary.analysis_id # pipe_runs[2].report.summary.analysis_id
    /\ pipe_runs[1].report.per_field = pipe_runs[2].report.per_field
    /\ pipe_runs[1].report.recommendations = pipe_runs[2].report.recommendations

\* the request fields whose area unit area_to_hectares does not accept
UnknownUnitFields(req) == {i \in 1..Len(req.fields) : ~area_to_hectares(req.fields[i].area_value, req.fields[i].area_unit).ok}

\* _ingest_request called add_field for field i: no earlier field raised
AddFieldCalled(req, i) ==
    /\ i \in 1..Len(req.fields)
    /\ \A j \in 1..(i - 1) : j \notin UnknownUnitFields(req)
    /\ i > 1 => YearOf(req.start_date).ok

\* the run executed its ingest step, no fault injected into it
Ingested(run) ==
    /\ Len(run.trace) >= 2
    /\ run.trace[2] = "ingest"
    /\ ~Faulty(run, "ingest")

FieldNamesWritten(run) == {run.written.fields[k].field_name : k \in 1..Len(run.written.fields)}

\* what C23 says of a run whose field i has an unknown unit, the failure
\* being of type error_type
UnknownUnitSurfaced(run, i, error_type) ==
    /\ run.error = error_type
    /\ run.req.fields[i].field_name \notin FieldNamesWritten(run)
    /\ Len(run.written.fields) = i - 1
    /\ run.failed_at = "ingest"
    /\ run.agg = None
    /\ run.pc = "done" => (run.outcome = "failure" /\ run.report = None)

(***************************************************************************)
(* C23: normalizing an area with an unknown unit fails with                *)
(* UnsupportedUnitError and yields no hectare value; add_field called with *)
(* such a unit writes no field row, and run_full_pipeline surfaces the     *)
(* failure to its caller.                                                  *)
(***************************************************************************)
C23_UnknownUnitFails ==
    \A r \in DOMAIN pipe_runs : \A i \in UnknownUnitFields(pipe_runs[r].req) :
        (Ingested(pipe_runs[r]) /\ AddFieldCalled(pipe_runs[r].req, i))
            => UnknownUnitSurfaced(pipe_runs[r], i, "UnsupportedUnitError")

\* C23 with the exception the code raises: ValueError
C23_UnknownUnitRaisesValueError ==
    \A r \in DOMAIN pipe_runs : \A i \in UnknownUnitFields(pipe_runs[r].req) :
        (Ingested(pipe_runs[r]) /\ AddFieldCalled(pipe_runs[r].req, i))
            => UnknownUnitSurfaced(pipe_runs[r], i, "ValueError")

C23_UnknownUnitReached ==
    \E r \in DOMAIN pipe_runs : \E i \in UnknownUnitFields(pipe_runs[r].req) :
        /\ Ingested(pipe_runs[r]) /\ AddFieldCalled(pipe_runs[r].req, i)
        /\ pipe_runs[r].pc = "done"
        /\ Len(pipe_runs[r].written.fields) = 1

(***************************************************************************)
(* Specification SpecSilent: one invocation of run_full_pipeline with a    *)
(* recommendation service that may leave a call without an answer.         *)
(***************************************************************************)
SilentRequests == {[farm_name |-> "Taneja Farms", fields |-> <<Quarter>>, start_date |-> "2024-01-01"]}

\* a service that is not called, one that fails, and services that leave the
\* first or the second SDK call without an answer
SilentServices ==
    {NotConfigured,
     [api_key |-> TRUE, attempts |-> <<Raises, Raises>>],
     [api_key |-> TRUE, attempts |-> <<NeverAnswers, Raises>>],
     [api_key |-> TRUE, attempts |-> <<Raises, NeverAnswers>>],
     [api_key |-> TRUE, attempts |-> <<Answers("prose", ObjEmpty), NeverAnswers>>],
     [api_key |-> TRUE, attempts |-> <<Answers("json_object", ObjMeasuresOnly), NeverAnswers>>]}

SilentEnvs ==
    {Env(service, "none", FALSE) : service \in SilentServices}
        \cup {Env(NotConfigured, fault, TRUE) : fault \in PipeSteps \cup {"none"}}

InitSilent ==
    /\ \E req \in SilentRequests, env \in SilentEnvs : pipe_runs = <<NewRun(req, env)>>
    /\ pipe_fs = NoDirs
    /\ pipe_store = <<>>
    /\ PipeOthersIdle

SpecSilent == InitSilent /\ [][NextPipe]_vars

\* the run has returned: a report or a failure
Terminated(run) == run.pc = "done" /\ run.outcome \in {"report", "failure"}

\* the step at the run's position can be taken: the guards of the actions.
\* mkdtemp needs a free name; the recommendation step needs its call to return
CanStep(run) ==
    CASE run.pc = "done" -> FALSE
      [] run.pc = "mkdtemp" -> MkdtempNames(pipe_fs) # {}
      [] run.pc = "recommend" -> Faulty(run, "recommend") \/ ~CallBlocks(run.env.service)
      [] OTHER -> TRUE

(***************************************************************************)
(* C24: every invocation of run_full_pipeline eventually terminates        *)
(* (returns a report or a failure) even when the external recommendation   *)
(* service never answers: the remote call made by the recommendation stage *)
(* is bounded by a timeout, after which the stage falls back.  As a        *)
(* property of states: a run that has not returned can take its next step, *)
(* so no run is left where nothing happens any more.                       *)
(***************************************************************************)
C24_EveryRunTerminates ==
    \A r \in DOMAIN pipe_runs : Terminated(pipe_runs[r]) \/ CanStep(pipe_runs[r])

\* the run waits at the recommendation stage for a call that does not return
WaitsForService(run) == run.pc = "recommend" /\ CallBlocks(run.env.service) /\ ~Faulty(run, "recommend")

\* the only runs that cannot go on are those waiting for the service, and
\* every run whose service leaves the call in use unanswered comes to wait
C24_StuckOnlyOnSilentService ==
    \A r \in DOMAIN pipe_runs :
        Terminated(pipe_runs[r]) \/ CanStep(pipe_runs[r]) \/ WaitsForService(pipe_runs[r])

C24_WaitingReached ==
    \E r \in DOMAIN pipe_runs :
        /\ WaitsForService(pipe_runs[r])
        /\ pipe_runs[r].env.service.attempts = <<Raises, NeverAnswers>>
        /\ pipe_fs[pipe_runs[r].dir].exists

(***************************************************************************)
(* The profile API (app/api/profile.py) over the SQLite backend, the       *)
(* default of the storage facade.  A table is the sequence of its rows in  *)
(* rowid order.  Identifiers (_new_id: twelve hex digits of a uuid4) are   *)
(* modelled by the row's number, timestamps (_now_iso: the clock cut to    *)
(* whole seconds) by the second.  A dict of a request is a record of       *)
(* entries: Present(v) for a key with value v, Absent for a key the dict   *)
(* does not hold.                                                          *)
(***************************************************************************)
\* most save_farm_full requests and most saved analyses
MaxFarms == 2
MaxAnalyses == 2
\* the last second of the clock
MaxClock == 1

Present(v) == [has |-> TRUE, v |-> v]

Absent == [has |-> FALSE]

\* dict.get(key, default)
DictGet(entry, default) == IF entry.has THEN entry.v ELSE default

\* json.dumps, and _loads that undoes it (None stays None)
json_dumps(value) == [text |-> value]

loads(value) == IF value = None THEN None ELSE value.text

\* the identifier of the next row of a table
new_id(table) == Len(table) + 1

\* _now_iso: the seconds the clock may show at the next write
now_iso(clock) == {t \in {clock, clock + 1} : t <= MaxClock}

save_farm(farms, farm_name, state, country, email, now) ==
    Append(farms, [farm_id |-> new_id(farms), email |-> email, farm_name |-> farm_name,
                   state |-> state, country |-> country, created_at |-> now])

save_field(fields, farm_id, f, area_ha) ==
    Append(fields,
           [field_id |-> new_id(fields), farm_id |-> farm_id, field_name |-> f.field_name.v,
            latitude |-> f.latitude.v, longitude |-> f.longitude.v,
            area_value |-> f.area_value.v, area_unit |-> f.area_unit.v, area_ha |-> area_ha,
            crop_type |-> f.crop_type.v,
            baseline_json |-> IF f.baseline.has THEN json_dumps(f.baseline.v) ELSE None,
            project_json |-> IF f.project.has THEN json_dumps(f.project.v) ELSE None])

\* f.get("area_ha") or f.get("area_value") or 0.0
area_raw(f) ==
    IF DictGet(f.area_ha, 0) # 0 THEN f.area_ha.v
    ELSE IF DictGet(f.area_value, 0) # 0 THEN f.area_value.v
    ELSE 0

\* f["..."] of a key the field dict does not hold raises KeyError
FieldRaises(f) ==
    \E k \in {"field_name", "latitude", "longitude", "area_value", "area_unit", "crop_type"} :
        ~f[k].has

\* the loop of save_farm_full over req.fields from the i-th on: the rows
\* after it, how many fields it saved, and whether it raised
RECURSIVE SaveFields(_, _, _, _)
SaveFields(fields, farm_id, fs, i) ==
    IF i > Len(fs) THEN [rows |-> fields, saved |-> i - 1, raised |-> FALSE]
    ELSE IF FieldRaises(fs[i]) THEN [rows |-> fields, saved |-> i - 1, raised |-> TRUE]
    ELSE SaveFields(save_field(fields, farm_id, fs[i], area_raw(fs[i])), farm_id, fs, i + 1)

\* the rows the query may return first: ORDER BY created_at DESC LIMIT 1
\* leaves the choice among rows of the same second to the engine
LatestRows(rows) ==
    {r \in rows : \A o \in rows : o.created_at <= r.created_at}

get_farm_by_email(farms, email) ==
    LET mine == {r \in SeqToSet(farms) : r.email = email}
    IN  IF mine = {} THEN {None} ELSE LatestRows(mine)

FieldItem(r) ==
    [field_id |-> r.field_id, farm_id |-> r.farm_id, field_name |-> r.field_name,
     latitude |-> r.latitude, longitude |-> r.longitude, area_value |-> r.area_value,
     area_unit |-> r.area_unit, area_ha |-> r.area_ha, crop_type |-> r.crop_type,
     baseline |-> loads(r.baseline_json), project |-> loads(r.project_json)]

RECURSIVE get_fields_by_farm(_, _)
get_fields_by_farm(fields, farm_id) ==
    IF fields = <<>> THEN <<>>
    ELSE LET rest == get_fields_by_farm(Tail(fields), farm_id)
         IN  IF Head(fields).farm_id = farm_id THEN <<FieldItem(Head(fields))>> \o rest
             ELSE rest

save_analysis(analyses, farm_name, state, analysis_window, result, now) ==
    Append(analyses,
           [analysis_id |-> new_id(analyses), farm_name |-> farm_name, state |-> state,
            analysis_window_json |-> json_dumps(analysis_window),
            result_json |-> json_dumps(result), email |-> None, created_at |-> now])

AnalysisItem(r) ==
    [analysis_id |-> r.analysis_id, farm_name |-> r.farm_name, state |-> r.state,
     email |-> r.email, created_at |-> r.created_at,
     analysis_window |-> loads(r.analysis_window_json), result |-> loads(r.result_json)]

db_get_analysis(analyses, analysis_id) ==
    LET hit == {r \in SeqToSet(analyses) : r.analysis_id = analysis_id}
    IN  IF hit = {} THEN None ELSE AnalysisItem(CHOOSE r \in hit : TRUE)

\* UPDATE analyses SET email = ? WHERE analysis_id = ?  and cur.rowcount
link_analysis_to_user(analyses, analysis_id, email) ==
    [rows |-> [i \in DOMAIN analyses |->
                 IF analyses[i].analysis_id = analysis_id
                 THEN [analyses[i] EXCEPT !.email = email] ELSE analyses[i]],
     rowcount |-> Cardinality({i \in DOMAIN analyses : analyses[i].analysis_id = analysis_id})]

get_latest_analysis_for_user(analyses, email) ==
    LET mine == {r \in SeqToSet(analyses) : r.email = email}
    IN  IF mine = {} THEN {None} ELSE {AnalysisItem(r) : r \in LatestRows(mine)}

\* save_profile_link's answer: the 404 raised inside the try block is an
\* Exception, so the except clause of the same try turns it into a 500
LinkAnswer(success) ==
    IF success THEN [status |-> 200, detail |-> "success"]
    ELSE [status |-> 500, detail |-> "Error linking analysis: 404: Analysis not found"]

(***************************************************************************)
(* The requests.                                                           *)
(***************************************************************************)
Emails == {"ana@farm.example", "ben@farm.example"}

ProfileField(name, area_ha, area_value, latitude, baseline, project) ==
    [field_name |-> Present(name), latitude |-> latitude, longitude |-> Present(-95),
     area_value |-> Present(area_value), area_unit |-> Present("acre"), area_ha |-> area_ha,
     crop_type |-> Present("corn"), baseline |-> baseline, project |-> project]

Conventional == [tillage_passes |-> 2, fertilizer_amount |-> 150, irrigation_events |-> 1]
Reduced == [tillage_passes |-> 0, fertilizer_amount |-> 100, irrigation_events |-> 1]

HomeField ==
    ProfileField("Home", Present(40), 100, Present(41), Present(Conventional), Present(Reduced))
CreekField == ProfileField("Creek", Absent, 25, Present(42), Absent, Absent)
\* a field dict without latitude
NoLatitudeField == ProfileField("Hill", Present(10), 25, Absent, Present(Conventional), Absent)

FarmDict(name, country) == [farm_name |-> name, state |-> Present("Iowa"), country |-> country]

SaveFarmRequests ==
    {[email |-> e, farm |-> fm.farm, fields |-> fm.fields] :
        e \in Emails,
        fm \in {[farm |-> FarmDict(Present("Prairie"), Present("Canada")), fields |-> <<HomeField, CreekField>>],
                [farm |-> FarmDict(Present("Bottoms"), Absent), fields |-> <<CreekField>>],
                [farm |-> FarmDict(Present("Ridge"), Present("Mexico")), fields |-> <<HomeField, NoLatitudeField, CreekField>>],
                [farm |-> FarmDict(Absent, Present("Canada")), fields |-> <<HomeField>>]}}

AnalysisInputs ==
    {[farm_name |-> "Prairie", state |-> "Iowa",
      analysis_window |-> [start_date |-> "2024-01-01", end_date |-> "2024-12-31"],
      result |-> [total |-> t]] : t \in {12}}

(***************************************************************************)
(* The handlers.                                                           *)
(***************************************************************************)
\* POST /api/profile/save-farm
SaveFarmFull ==
    /\ Len(db_log) < MaxFarms
    /\ \E req \in SaveFarmRequests, now \in now_iso(db_clock) :
          IF ~req.farm.farm_name.has
          THEN /\ db_log' = Append(db_log, [req |-> req, farm_id |-> 0, saved |-> 0, status |-> 500])
               /\ db_last' = [op |-> "save_farm_full", email |-> req.email, status |-> 500]
               /\ UNCHANGED <<db_farms, db_fields, db_analyses, db_clock>>
          ELSE LET farm_id == new_id(db_farms)
                   out == SaveFields(db_fields, farm_id, req.fields, 1)
                   status == IF out.raised THEN 500 ELSE 200
               IN  /\ db_farms' = save_farm(db_farms, req.farm.farm_name.v, req.farm.state.v,
                                            DictGet(req.farm.country, "United States"),
                                            req.email, now)
                   /\ db_fields' = out.rows
                   /\ db_clock' = now
                   /\ db_log' = Append(db_log, [req |-> req, farm_id |-> farm_id,
                                                saved |-> out.saved, status |-> status])
                   /\ db_last' = [op |-> "save_farm_full", email |-> req.email, status |-> status]
                   /\ UNCHANGED db_analyses
    /\ UNCHANGED dbOthers

\* the pipeline's persistence step stores an analysis; it has no email yet
SaveAnalysis ==
    /\ Len(db_analyses) < MaxAnalyses
    /\ \E a \in AnalysisInputs, now \in now_iso(db_clock) :
          /\ db_analyses' = save_analysis(db_analyses, a.farm_name, a.state,
                                          a.analysis_window, a.result, now)
          /\ db_clock' = now
          /\ db_last' = [op |-> "save_analysis", analysis_id |-> new_id(db_analyses), status |-> 200]
    /\ UNCHANGED <<db_farms, db_fields, db_log>>
    /\ UNCHANGED dbOthers

\* POST /api/profile/save; 0 is an identifier no stored analysis has
SaveProfileLink ==
    /\ \E email \in Emails, analysis_id \in 0..Len(db_analyses) :
          LET out == link_analysis_to_user(db_analyses, analysis_id, email)
              answer == LinkAnswer(out.rowcount > 0)
          IN  /\ db_analyses' = out.rows
              /\ db_last' = [op |-> "save_profile_link", email |-> email,
                             analysis_id |-> analysis_id, before |-> db_analyses,
                             status |-> answer.status, detail |-> answer.detail]
    /\ UNCHANGED <<db_farms, db_fields, db_clock, db_log>>
    /\ UNCHANGED dbOthers

\* GET /api/profile/load
LoadProfile ==
    /\ \E email \in Emails :
          \E farm \in get_farm_by_email(db_farms, email),
             analysis \in get_latest_analysis_for_user(db_analyses, email) :
              db_last' = [op |-> "load_profile", email |-> email, status |-> 200,
                          farm |-> farm,
                          fields |-> IF farm # None
                                     THEN get_fields_by_farm(db_fields, farm.farm_id) ELSE <<>>,
                          latest_analysis |-> analysis]
    /\ UNCHANGED <<db_farms, db_fields, db_analyses, db_clock, db_log>>
    /\ UNCHANGED dbOthers

\* GET /api/analyses/{analysis_id}
GetAnalysis ==
    /\ \E analysis_id \in 0..Len(db_analyses) :
          LET doc == db_get_analysis(db_analyses, analysis_id)
          IN  db_last' = [op |-> "get_analysis", analysis_id |-> analysis_id,
                          status |-> IF doc = None THEN 404 ELSE 200, doc |-> doc]
    /\ UNCHANGED <<db_farms, db_fields, db_analyses, db_clock, db_log>>
    /\ UNCHANGED dbOthers

NextProfile == SaveFarmFull \/ SaveAnalysis \/ SaveProfileLink \/ LoadProfile \/ GetAnalysis

InitProfile ==
    /\ DbIdle
    /\ DbOthersIdle

SpecProfile == InitProfile /\ [][NextProfile]_vars

\* the save_farm_full requests of an email that stored a farm, oldest first
\* (the log holds farm_id 0 for a request that raised before save_farm)
FarmSaves(email) == SelectSeq(db_log, LAMBDA e : e.req.email = email /\ e.farm_id > 0)

\* the stored analyses linked to an email, by row number
LinkedAnalyses(email) == {i \in DOMAIN db_analyses : db_analyses[i].email = email}

\* load_profile has answered an email for which every save_farm_full stored
\* its farm with all its fields and to which an analysis is linked
ProfileLoaded ==
    /\ db_last # <<>>
    /\ db_last.op = "load_profile"
    /\ FarmSaves(db_last.email) # <<>>
    /\ \A i \in DOMAIN FarmSaves(db_last.email) : FarmSaves(db_last.email)[i].status = 200
    /\ LinkedAnalyses(db_last.email) # {}

\* the answer's farm and fields are those of the save_farm_full request save
EchoesSave(answer, save) ==
    /\ answer.farm # None
    /\ answer.farm.farm_id = save.farm_id
    /\ answer.farm.farm_name = save.req.farm.farm_name.v
    /\ answer.farm.country = DictGet(save.req.farm.country, "United States")
    /\ Len(answer.fields) = Len(save.req.fields)
    /\ \A k \in DOMAIN answer.fields :
          /\ answer.fields[k].field_name = save.req.fields[k].field_name.v
          /\ answer.fields[k].baseline = DictGet(save.req.fields[k].baseline, None)

(***************************************************************************)
(* C25: after a farm with its fields has been saved for an email           *)
(* (save_farm_full) and an existing analysis has been linked to that email *)
(* (save_profile_link), load_profile for that email returns the most       *)
(* recently saved farm with the country it was saved with, all of that     *)
(* farm's fields with their baseline data unchanged, and the most recently *)
(* created analysis linked to that email as latest_analysis.               *)
(***************************************************************************)
C25_LoadReturnsLatest ==
    ProfileLoaded =>
        LET saves == FarmSaves(db_last.email)
            linked == LinkedAnalyses(db_last.email)
            newest == CHOOSE i \in linked : \A j \in linked : j <= i
        IN  /\ db_last.status = 200
            /\ EchoesSave(db_last, saves[Len(saves)])
            /\ db_last.latest_analysis # None
            /\ db_last.latest_analysis.analysis_id = db_analyses[newest].analysis_id

\* what the queries do ensure: the farm is one saved in the latest second in
\* which a farm was saved for the email, with its own fields and baselines,
\* and the analysis is one created in the latest second among the linked ones
C25_LoadReturnsOneOfLatestSecond ==
    ProfileLoaded =>
        LET saves == FarmSaves(db_last.email)
            linked == LinkedAnalyses(db_last.email)
        IN  /\ db_last.status = 200
            /\ \E i \in DOMAIN saves :
                  /\ EchoesSave(db_last, saves[i])
                  /\ \A j \in DOMAIN saves : db_last.farm.created_at >= db_farms[saves[j].farm_id].created_at
            /\ \E i \in linked :
                  /\ db_last.latest_analysis.analysis_id = db_analyses[i].analysis_id
                  /\ db_last.latest_analysis.email = db_last.email
                  /\ \A j \in linked : db_analyses[j].created_at <= db_analyses[i].created_at

\* load_profile answered with a farm saved before the email's latest farm,
\* both saved within the same second
C25_OlderFarmReturned ==
    /\ ProfileLoaded
    /\ LET saves == FarmSaves(db_last.email)
       IN  /\ Len(saves) = 2
           /\ db_last.farm.farm_id = saves[1].farm_id
           /\ db_farms[saves[1].farm_id].created_at = db_farms[saves[2].farm_id].created_at

\* load_profile answered with the latest farm, two fields with and without
\* baseline data, after an older farm had been saved a second earlier
C25_LatestFarmReturned ==
    /\ ProfileLoaded
    /\ LET saves == FarmSaves(db_last.email)
       IN  /\ Len(saves) = 2
           /\ db_last.farm.farm_id = saves[2].farm_id
           /\ db_farms[saves[1].farm_id].created_at < db_farms[saves[2].farm_id].created_at
           /\ Len(db_last.fields) = 2
           /\ db_last.fields[1].baseline = Conventional
           /\ db_last.fields[2].baseline = None

\* save_profile_link has answered
LinkAnswered == db_last # <<>> /\ db_last.op = "save_profile_link"

\* whether an analysis with the identifier was stored when the request came
AnalysisExisted(last) ==
    \E i \in DOMAIN last.before : last.before[i].analysis_id = last.analysis_id

\* the rows of the analyses the request did not name are as they were, and the
\* named analysis, when there is one, carries the email and is otherwise as it was
LinkedOnlyNamed(last) ==
    /\ DOMAIN db_analyses = DOMAIN last.before
    /\ \A i \in DOMAIN db_analyses :
          IF last.before[i].analysis_id = last.analysis_id
          THEN db_analyses[i] = [last.before[i] EXCEPT !.email = last.email]
          ELSE db_analyses[i] = last.before[i]

(***************************************************************************)
(* C29: save_profile_link called with an analysis_id that no stored        *)
(* analysis has answers with the 404 'Analysis not found' error and        *)
(* changes no stored analysis; it answers success exactly when the         *)
(* analysis exists, and then that analysis carries the given email.        *)
(***************************************************************************)
C29_UnknownAnalysisAnswers404 ==
    LinkAnswered =>
        /\ ~AnalysisExisted(db_last) =>
              /\ db_last.status = 404
              /\ db_last.detail = "Analysis not found"
              /\ db_analyses = db_last.before
        /\ (db_last.status = 200) <=> AnalysisExisted(db_last)
        /\ LinkedOnlyNamed(db_last)

\* the same with the answer the handler gives for an unknown analysis: 500
C29_UnknownAnalysisAnswers500 ==
    LinkAnswered =>
        /\ ~AnalysisExisted(db_last) =>
              /\ db_last.status = 500
              /\ db_last.detail = "Error linking analysis: 404: Analysis not found"
              /\ db_analyses = db_last.before
        /\ (db_last.status = 200) <=> AnalysisExisted(db_last)
        /\ LinkedOnlyNamed(db_last)

\* an unknown analysis_id was answered while an analysis is stored
C29_UnknownAnswered ==
    /\ LinkAnswered
    /\ ~AnalysisExisted(db_last)
    /\ db_last.status = 500
    /\ db_analyses # <<>>

(***************************************************************************)
(* The step store (app/api/steps.py): _STORE maps a (farm, field) key to   *)
(* the set of completed step ids and the timeline of balances.  Amounts    *)
(* are in thousandths of a credit, the unit round(x, 3) keeps; the         *)
(* reductions requests carry are chosen so that no quotient lies halfway   *)
(* between two thousandths.                                                *)
(***************************************************************************)
\* the last second of the step API's clock
MaxStepClock == 1

\* str.strip() on the names requests carry
strip(name) ==
    CASE name = " Prairie " -> "Prairie"
      [] name = "Home " -> "Home"
      [] OTHER -> name

StepKey(req) == <<strip(req.farm_name), strip(req.field_name)>>

NewRecord == [completed |-> {}, timeline |-> <<>>]

\* _STORE.get(key), with the record complete_step creates for a new key
StoredRecord(store, key) == IF key \in DOMAIN store THEN store[key] ELSE NewRecord

\* float(timeline[-1][1]) if len(timeline) > 0 else 0.0
current_balance(timeline) ==
    IF Len(timeline) > 0 THEN timeline[Len(timeline)].balance ELSE 0

\* round(total_red / divider, 3), total_steps_for_field <= 0 counting as 1
step_delta(req) ==
    LET total_steps == IF req.total_steps_for_field <= 0 THEN 1 ELSE req.total_steps_for_field
    IN  RoundDiv(req.total_field_reduction_tco2e, total_steps)

\* the handler with the test on the completed set left out
complete_step_unguarded(rec, req, ts) ==
    [completed |-> rec.completed \cup {req.step_id},
     timeline |-> Append(rec.timeline,
                         [ts |-> ts, balance |-> current_balance(rec.timeline) + step_delta(req)])]

\* what complete_step makes of the record of the request's key
complete_step(rec, req, ts) ==
    IF req.step_id \notin rec.completed
    THEN [completed |-> rec.completed \cup {req.step_id},
          timeline |-> Append(rec.timeline,
                              [ts |-> ts, balance |-> current_balance(rec.timeline) + step_delta(req)])]
    ELSE rec

\* the reductions and step counts requests carry: deltas 1.0, 0.333 and 2.5
StepAmounts ==
    {[total_field_reduction_tco2e |-> 1000, total_steps_for_field |-> 0],
     [total_field_reduction_tco2e |-> 1000, total_steps_for_field |-> 3],
     [total_field_reduction_tco2e |-> 2500, total_steps_for_field |-> -1]}

StepRequests ==
    {[farm_name |-> farm, field_name |-> "Home", step_id |-> step,
      total_field_reduction_tco2e |-> a.total_field_reduction_tco2e,
      total_steps_for_field |-> a.total_steps_for_field] :
        farm \in {"Prairie", " Prairie ", "Ridge"}, step \in {"no_till", "cover_crop"},
        a \in StepAmounts}

\* POST /api/steps/complete
CompleteStep ==
    /\ \E req \in StepRequests, ts \in {t \in {step_clock, step_clock + 1} : t <= MaxStepClock} :
          LET key == StepKey(req)
              before == StoredRecord(step_store, key)
              after == complete_step(before, req, ts)
          IN  /\ step_store' = [k \in DOMAIN step_store \cup {key} |->
                                  IF k = key THEN after ELSE step_store[k]]
              /\ step_clock' = ts
              /\ step_last' = [req |-> req, before |-> before,
                               answer |-> [ok |-> TRUE, farm_name |-> req.farm_name,
                                           field_name |-> req.field_name, step_id |-> req.step_id,
                                           completed_steps |-> after.completed,
                                           balance_credits |-> current_balance(after.timeline),
                                           timeline |-> after.timeline]]
    /\ UNCHANGED stepOthers

NextSteps == CompleteStep

InitSteps ==
    /\ StepIdle
    /\ StepOthersIdle

SpecSteps == InitSteps /\ [][NextSteps]_vars

\* the last request named a step that was already completed for its key
RepeatedStep ==
    /\ step_last # <<>>
    /\ step_last.req.step_id \in step_last.before.completed

(***************************************************************************)
(* C28: in the step store, after any sequence of complete_step calls for a *)
(* (farm, field) key, calling complete_step again with a step_id that is   *)
(* already completed leaves the stored completed set, timeline and balance *)
(* for that key unchanged, whatever total_field_reduction_tco2e and        *)
(* total_steps_for_field the repeated request carries; the timeline always *)
(* has exactly one point per distinct completed step_id.                   *)
(***************************************************************************)
C28_RepeatedStepChangesNothing ==
    /\ RepeatedStep =>
          LET rec == step_store[StepKey(step_last.req)]
          IN  /\ rec.completed = step_last.before.completed
              /\ rec.timeline = step_last.before.timeline
              /\ current_balance(rec.timeline) = current_balance(step_last.before.timeline)
              /\ step_last.answer.balance_credits = current_balance(step_last.before.timeline)
              /\ step_last.answer.timeline = step_last.before.timeline
    /\ \A key \in DOMAIN step_store :
          Len(step_store[key].timeline) = Cardinality(step_store[key].completed)

\* a completed step was sent again, under another spelling of the farm name and
\* with a reduction that would have changed the balance, after two steps
C28_Witness ==
    /\ RepeatedStep
    /\ step_last.req.farm_name = " Prairie "
    /\ step_delta(step_last.req) = 2500
    /\ Len(step_last.before.timeline) = 2
    /\ current_balance(step_last.before.timeline) = 666
    /\ Cardinality(DOMAIN step_store) = 2

\* the sum of the three clamped terms, each multiplied by the area itself
ClampedTermsSum(area_ha, baseline_events, project_events) ==
    LET tillage == Max(0, count_type(baseline_events, "tillage")
                            - count_type(project_events, "tillage"))
        fert == Max(0, sum_amount_for_type(baseline_events, "fertilizer")
                         - sum_amount_for_type(project_events, "fertilizer"))
        irrigation == Max(0, count_type(baseline_events, "irrigation")
                               - count_type(project_events, "irrigation"))
    IN  Val(tillage * TILLAGE_MICRO_PER_MILLI_HA * area_ha
            + fert * FERT_MICRO_PER_MILLI_HA * area_ha
            + irrigation * IRRIGATION_MICRO_PER_MILLI_HA * area_ha, 0)

(***************************************************************************)
(* C26: for every area_ha >= 0 (including 0) and every pair of event       *)
(* lists, the mid returned by estimate_season_delta_tco2e equals           *)
(* max(0, baseline tillage count - project tillage count) * 0.10 * area_ha *)
(* + max(0, baseline fertilizer amount sum - project fertilizer amount     *)
(* sum) * 0.005 * area_ha + max(0, baseline irrigation count - project     *)
(* irrigation count) * 0.02 * area_ha.                                     *)
(***************************************************************************)
C26_MidIsSumOfClampedTerms ==
    EstArea >= 0 => EstDirect.mid = ClampedTermsSum(EstArea, EstBaseEvents, EstProjEvents)

\* the formula holds for every positive area; at area 0 the mid is the
\* fertilizer reduction times 0.005 * 1e-9 and nothing else
C26_MidIsSumForPositiveArea ==
    /\ EstArea > 0 => EstDirect.mid = ClampedTermsSum(EstArea, EstBaseEvents, EstProjEvents)
    /\ EstArea = 0 =>
          EstDirect.mid = Val(0, Max(0, sum_amount_for_type(EstBaseEvents, "fertilizer")
                                          - sum_amount_for_type(EstProjEvents, "fertilizer")))

\* run_estimates ran on a field of area 0 whose fertilizer use went down
C26_ZeroAreaReached ==
    /\ est_runs > 0
    /\ EstArea = 0
    /\ EstDirect.mid.tiny > 0
    /\ "fertilizer_reduction_proxy" \in SeqToSet(EstDirect.assumptions)

\* run_estimates ran on a field of positive area with all three practices reduced
C26_AllTermsReached ==
    /\ est_runs > 0
    /\ EstArea > 0
    /\ Len(EstDirect.assumptions) >= 3
    /\ EstDirect.mid.micro > 0

\* the run has returned, with a report or with the exception of a stage
Returned(run) == run.pc = "done"

\* the temporary directories that exist
Workspaces == {name \in TempNames : pipe_fs[name].exists}

\* mkdtemp gave the run a directory
HadWorkspace(run) == run.dir # ""

\* the last step the run executed
LastStep(run) == run.trace[Len(run.trace)]

(***************************************************************************)
(* C27: deleting the workspace is the last step of every run of            *)
(* run_full_pipeline: the temporary directory created for the run is       *)
(* removed both when the pipeline returns a report and when any stage      *)
(* raises, so after any sequence of runs no workspace of a finished run    *)
(* remains.                                                                *)
(***************************************************************************)
C27_AsStated ==
    \A r \in DOMAIN pipe_runs :
        Returned(pipe_runs[r]) /\ HadWorkspace(pipe_runs[r]) =>
            /\ LastStep(pipe_runs[r]) = "cleanup"
            /\ ~pipe_fs[pipe_runs[r].dir].exists

\* the removal is the last step of every run that got a directory, whether the
\* run returns a report or a stage raised, and the directory is gone after it
\* unless the removal itself failed: its errors are ignored, the directory
\* stays, and the run returns what it would have returned.  A run whose
\* mkdtemp failed has no directory and leaves none.
C27_WorkspaceRemovedUnlessRmtreeFails ==
    \A r \in DOMAIN pipe_runs :
        LET run == pipe_runs[r]
        IN  Returned(run) =>
                /\ run.outcome = RunOutcome(run.failed_at)
                /\ HadWorkspace(run) =>
                      /\ LastStep(run) = "cleanup"
                      /\ "cleanup" \notin run.raised => Workspaces = {}
                      /\ "cleanup" \in run.raised => Workspaces = {run.dir}
                /\ ~HadWorkspace(run) => run.failed_at = "mkdtemp" /\ Workspaces = {}

\* a run whose estimate stage raised after ingest had written its rows has
\* finished as a failure and its directory is gone
C27_Witness ==
    \E r \in DOMAIN pipe_runs :
        /\ Returned(pipe_runs[r])
        /\ pipe_runs[r].outcome = "failure"
        /\ pipe_runs[r].failed_at = "estimate"
        /\ pipe_runs[r].written.fields # <<>>
        /\ HadWorkspace(pipe_runs[r])
        /\ Workspaces = {}

\* a run that returned its report has left no directory
C27_WitnessReport ==
    \E r \in DOMAIN pipe_runs :
        /\ Returned(pipe_runs[r])
        /\ pipe_runs[r].outcome = "report"
        /\ Workspaces = {}

\* with several runs: once every run has returned and no removal failed, no
\* directory is left, and a directory that exists belongs to a run under way
\* or to a run whose removal failed
C27_NoneLeftAfterAllRuns ==
    /\ (\A r \in DOMAIN pipe_runs : Returned(pipe_runs[r]) /\ "cleanup" \notin pipe_runs[r].raised)
          => Workspaces = {}
    /\ \A name \in Workspaces :
          \E r \in DOMAIN pipe_runs :
              /\ pipe_runs[r].dir = name
              /\ ~Returned(pipe_runs[r]) \/ "cleanup" \in pipe_runs[r].raised

\* the entry carries the inputs of the request field f
EchoesField(entry, f) ==
    /\ entry.field_name = f.field_name
    /\ entry.input.found
    /\ entry.input.latitude = f.latitude
    /\ entry.input.longitude = f.longitude
    /\ entry.input.area_value = f.area_value
    /\ entry.input.area_unit = f.area_unit
    /\ entry.input.baseline = f.baseline
    /\ entry.input.project = f.project

\* the k-th estimate row the run wrote comes from the k-th request field: the
\* row's field_id is the id ingest generated for that field
EstimateFromField(run, r, k) ==
    /\ k <= Len(run.written.estimates)
    /\ run.written.estimates[k].field_id = Uid("field_", r, k)

SharesName(req) ==
    \E i, j \in 1..Len(req.fields) : i # j /\ req.fields[i].field_name = req.fields[j].field_name

(***************************************************************************)
(* C30: each per_field entry of the report returned by run_full_pipeline   *)
(* echoes the latitude, longitude, area and baseline/project practice      *)
(* inputs of the request field from which its reduction estimate was       *)
(* computed, and the report has exactly one per_field entry per request    *)
(* field, in request order; this holds for every valid request, whether    *)
(* or not two fields share a field_name.                                   *)
(***************************************************************************)
C30_PerFieldEchoesItsField ==
    \A r \in DOMAIN pipe_runs :
        pipe_runs[r].outcome = "report" =>
            LET run == pipe_runs[r]
            IN  /\ Len(run.report.per_field) = Len(run.req.fields)
                /\ \A k \in 1..Len(run.report.per_field) :
                      /\ EstimateFromField(run, r, k)
                      /\ EchoesField(run.report.per_field[k], run.req.fields[k])

\* what the code does: one entry per request field in request order, each
\* computed from its own field, carrying the inputs of the last request field
\* that has the entry's field_name; so the echo is right when no name is shared
C30_PerFieldEchoesLastOfName ==
    \A r \in DOMAIN pipe_runs :
        pipe_runs[r].outcome = "report" =>
            LET run == pipe_runs[r]
            IN  /\ Len(run.report.per_field) = Len(run.req.fields)
                /\ \A k \in 1..Len(run.report.per_field) :
                      /\ EstimateFromField(run, r, k)
                      /\ EchoesField(run.report.per_field[k],
                                     OrigField(run.req, run.req.fields[k].field_name).field)
                      /\ ~SharesName(run.req) =>
                            EchoesField(run.report.per_field[k], run.req.fields[k])

\* a report for two fields of the same name whose first entry carries the
\* coordinates and practices of the second field
C30_WrongEchoReached ==
    \E r \in DOMAIN pipe_runs :
        /\ pipe_runs[r].outcome = "report"
        /\ pipe_runs[r].req.fields = <<North40, North40Again>>
        /\ pipe_runs[r].report.per_field[1].input.latitude = North40Again.latitude
        /\ pipe_runs[r].report.per_field[1].input.baseline = North40Again.baseline

====
